---- MODULE Spec2Model ----
(***************************************************************************)
(* The child side of process launch: childProcess() of                     *)
(* src/java.base/unix/native/libjava/childproc.c and the helpers it calls. *)
(*                                                                         *)
(* One step of the model is one library-level call of the C code (a        *)
(* write(2) inside writeFully, a dup2, a close, a markCloseOnExec, an      *)
(* exec...).  The result of each system call is chosen nondeterministically*)
(* among the results the call can have in the current descriptor table.    *)
(*                                                                         *)
(* Descriptor numbers are integers, -1 is "absent".  An open descriptor    *)
(* refers to an open file, named by a string ("failW" is the write end of  *)
(* the fail pipe); "closed" marks an unused slot.  Paths and argument      *)
(* strings are sequences of one-character strings.                         *)
(***************************************************************************)
EXTENDS Integers, Sequences, FiniteSets, TLC

VARIABLES
    p,              \* the ChildStuff handed to childProcess (read only)
    parentPathv,    \* the global saved PATH list of the parent
    fdt,            \* descriptor table: fd -> open file, or "closed"
    fdflags,        \* descriptor flag word of each fd (bit 0 = FD_CLOEXEC)
    pc,             \* position of the child in childProcess
    sub,            \* position inside moveDescriptor: "dup2" or "close"
    errno,          \* the thread's errno
    fail_pipe_fd,   \* local of childProcess
    errnum,         \* local of the WhyCantJohnnyExec block
    wf,             \* locals of the running writeFully: value, bytes done, EINTRs
    idx,            \* loop index: leftover number, scanned fd, PATH entry
    eintr,          \* consecutive EINTR results of the running restartable call
    dp,             \* descriptor of the open directory stream, -1 if none
    dirents,        \* entries readdir has still to return
    chan,           \* bytes written so far into the fail pipe, each with the
                    \* position of the writeFully call that wrote it
    hist,           \* completed calls, in order
    execs,          \* exec calls made, in order
    sigmask,        \* blocked signals: "inherited" or "empty"
    cwd,            \* working directory
    environ,        \* the global environ pointer
    argv,           \* the argument vector memory (with its spare slot)
    sticky_errno,   \* local of JDK_execvpe
    expanded_file,  \* local buffer of JDK_execvpe
    cand,           \* file argument of the running execve_with_shell_fallback
    image,          \* what the new program image received, once exec succeeded
    exitStatus,     \* exit status once _exit ran, -1 before
    io              \* a call of readFully or writeFully on its own: arguments,
                    \* locals, and what the transport has seen

vars == <<p, parentPathv, fdt, fdflags, pc, sub, errno, fail_pipe_fd, errnum,
          wf, idx, eintr, dp, dirents, chan, hist, execs, sigmask, cwd,
          environ, argv, sticky_errno, expanded_file, cand, image, exitStatus,
          io>>

(***************************************************************************)
(* Bounds of the model.                                                    *)
(***************************************************************************)
\* consecutive EINTR results a restartable call may see
MaxEintr == 1
\* longest saved PATH list
MaxDirs == 2
\* largest byte count handed to readFully and writeFully on their own
MaxBytes == 3

(***************************************************************************)
(* Program constants.                                                      *)
(***************************************************************************)
STDIN_FILENO == 0
STDOUT_FILENO == 1
STDERR_FILENO == 2
\* childproc.h: the fixed number the fail pipe is moved to
FAIL_FILENO == STDERR_FILENO + 1
\* childproc.h: the alive-ping sentinel
CHILD_IS_ALIVE == 65535
\* childproc.h: launch mechanisms
MODE_FORK == 1
MODE_POSIX_SPAWN == 2
MODE_VFORK == 3
FD_CLOEXEC == 1
SizeofInt == 4
\* size of the descriptor table, sysconf(_SC_OPEN_MAX)
OpenMax == 12
\* <limits.h> PATH_MAX, scaled to the path lengths of the model
PATH_MAX == 8
ENOENT == 2
EINTR == 4
EIO == 5
E2BIG == 7
ENOEXEC == 8
EBADF == 9
EACCES == 13
EBUSY == 16
ENODEV == 19
ENOTDIR == 20
EINVAL == 22
EMFILE == 24
EPIPE == 32
ENAMETOOLONG == 36
ELOOP == 40
ETIMEDOUT == 110
ESTALE == 116

NoFd == 0 - 1
Fds == 0 .. (OpenMax - 1)
NULL == <<"NULL">>
BinSh == <<"/", "b", "i", "n", "/", "s", "h">>

\* no writeFully is running
NoWrite == [val |-> 0, off |-> 0]

IsOpen(t, fd) == fd \in Fds /\ t[fd] # "closed"

(***************************************************************************)
(* Bytes of an int in host (little-endian) order and back.                 *)
(***************************************************************************)
IntBytes(v) == [i \in 1 .. SizeofInt |-> (v \div (256 ^ (i - 1))) % 256]

RECURSIVE BytesInt(_)
BytesInt(b) == IF b = <<>> THEN 0 ELSE Head(b) + 256 * BytesInt(Tail(b))

(***************************************************************************)
(* System calls: the set of results a call can have, as records            *)
(* [ret, t, fl, e] (return value, descriptor table, flag words, errno).    *)
(***************************************************************************)
Sys_close(t, fl, e, fd) ==
    IF ~IsOpen(t, fd)
    THEN {[ret |-> -1, t |-> t, fl |-> fl, e |-> EBADF]}
    ELSE LET t2 == [t EXCEPT ![fd] = "closed"]
             fl2 == [fl EXCEPT ![fd] = 0]
         IN  {[ret |-> 0, t |-> t2, fl |-> fl2, e |-> e],
              [ret |-> -1, t |-> t2, fl |-> fl2, e |-> EIO]}

\* dup2 without its EINTR result, which restartableDup2 retries
Sys_dup2(t, fl, e, from, to) ==
    IF ~IsOpen(t, from)
    THEN {[ret |-> -1, t |-> t, fl |-> fl, e |-> EBADF]}
    ELSE IF from = to
    THEN {[ret |-> to, t |-> t, fl |-> fl, e |-> e]}
    ELSE {[ret |-> to, t |-> [t EXCEPT ![to] = t[from]],
           fl |-> [fl EXCEPT ![to] = 0], e |-> e],
          [ret |-> -1, t |-> t, fl |-> fl, e |-> EBUSY]}

\* write(fd, buf, remaining): [n, e]; n bytes of the buffer were taken
Sys_write(t, e, fd, remaining) ==
    IF ~IsOpen(t, fd)
    THEN {[n |-> -1, e |-> EBADF]}
    ELSE {[n |-> k, e |-> e] : k \in 0 .. remaining}
         \cup {[n |-> -1, e |-> EPIPE], [n |-> -1, e |-> EINTR]}

\* read(fd, buf, count) with avail bytes left before end-of-file: [n, e]
Sys_read(t, e, fd, avail, count) ==
    IF ~IsOpen(t, fd)
    THEN {[n |-> -1, e |-> EBADF]}
    ELSE {[n |-> k, e |-> e] : k \in {j \in 1 .. count : j <= avail}}
         \cup (IF avail = 0 \/ count = 0 THEN {[n |-> 0, e |-> e]} ELSE {})
         \cup {[n |-> -1, e |-> EIO], [n |-> -1, e |-> EINTR]}

LowestFree(t) ==
    IF \E fd \in Fds : t[fd] = "closed"
    THEN CHOOSE fd \in Fds : t[fd] = "closed" /\ \A g \in Fds : g < fd => t[g] # "closed"
    ELSE NoFd

\* the open descriptors in ascending order, as readdir returns them
RECURSIVE Ascending(_)
Ascending(S) ==
    IF S = {} THEN <<>>
    ELSE LET m == CHOOSE x \in S : \A y \in S : x <= y
         IN  <<m>> \o Ascending(S \ {m})

OpenFds(t) == {fd \in Fds : t[fd] # "closed"}

(***************************************************************************)
(* closeSafely, markCloseOnExec                                            *)
(***************************************************************************)
closeSafely(t, fl, e, fd) ==
    IF fd = NoFd
    THEN {[ret |-> 0, t |-> t, fl |-> fl, e |-> e]}
    ELSE Sys_close(t, fl, e, fd)

HasCloexec(flags) == (flags \div FD_CLOEXEC) % 2 = 1
OrCloexec(flags) == IF HasCloexec(flags) THEN flags ELSE flags + FD_CLOEXEC

\* (variant: the flag word is fetched but never written back)
markCloseOnExec_noSet(t, fl, e, fd) ==
    IF ~IsOpen(t, fd)
    THEN {[ret |-> -1, fl |-> fl, e |-> EBADF, wrote |-> FALSE]}
    ELSE {[ret |-> -1, fl |-> fl, e |-> EINVAL, wrote |-> FALSE],
          [ret |-> 0, fl |-> fl, e |-> e, wrote |-> FALSE]}

\* (variant: F_SETFD writes FD_CLOEXEC alone, dropping the other flag bits)
markCloseOnExec_clobber(t, fl, e, fd) ==
    IF ~IsOpen(t, fd)
    THEN {[ret |-> -1, fl |-> fl, e |-> EBADF, wrote |-> FALSE]}
    ELSE {[ret |-> -1, fl |-> fl, e |-> EINVAL, wrote |-> FALSE]}
         \cup (IF ~HasCloexec(fl[fd])
               THEN {[ret |-> 0, fl |-> [fl EXCEPT ![fd] = FD_CLOEXEC],
                      e |-> e, wrote |-> TRUE],
                     [ret |-> -1, fl |-> fl, e |-> EINVAL, wrote |-> TRUE]}
               ELSE {[ret |-> 0, fl |-> fl, e |-> e, wrote |-> FALSE]})

\* results [ret, fl, e, wrote]; wrote tells whether F_SETFD was issued
markCloseOnExec(t, fl, e, fd) ==
    IF ~IsOpen(t, fd)
    THEN {[ret |-> -1, fl |-> fl, e |-> EBADF, wrote |-> FALSE]}
    ELSE {[ret |-> -1, fl |-> fl, e |-> EINVAL, wrote |-> FALSE]}
         \cup (IF ~HasCloexec(fl[fd])
               THEN {[ret |-> 0, fl |-> [fl EXCEPT ![fd] = OrCloexec(fl[fd])],
                      e |-> e, wrote |-> TRUE],
                     [ret |-> -1, fl |-> fl, e |-> EINVAL, wrote |-> TRUE]}
               ELSE {[ret |-> 0, fl |-> fl, e |-> e, wrote |-> FALSE]})


(***************************************************************************)
(* Names of directory entries: decimal digits of the descriptor number.    *)
(***************************************************************************)
Digits == <<"0", "1", "2", "3", "4", "5", "6", "7", "8", "9">>

RECURSIVE FdName(_)
FdName(n) ==
    IF n < 10 THEN <<Digits[n + 1]>>
    ELSE FdName(n \div 10) \o <<Digits[(n % 10) + 1]>>

isAsciiDigit(c) == \E i \in 1 .. 10 : Digits[i] = c

DigitValue(c) == (CHOOSE i \in 1 .. 10 : Digits[i] = c) - 1

\* strtol(name, NULL, 10) on a name that starts with a digit
RECURSIVE StrToL(_, _)
StrToL(name, acc) ==
    IF name = <<>> \/ ~isAsciiDigit(Head(name)) THEN acc
    ELSE StrToL(Tail(name), 10 * acc + DigitValue(Head(name)))

\* what readdir returns for the descriptor directory of table t
DirEntries(t) ==
    <<<<".">>, <<".", ".">>>> \o [i \in 1 .. Cardinality(OpenFds(t)) |->
                                    FdName(Ascending(OpenFds(t))[i])]

(***************************************************************************)
(* The launch descriptor and the initial states.                           *)
(***************************************************************************)
SrcIn(d) == IF d.in0 # NoFd THEN d.in0 ELSE d.fds[1]
SrcOut(d) == IF d.out1 # NoFd THEN d.out1 ELSE d.fds[2]
SrcErr(d) == IF d.err1 # NoFd THEN d.err1 ELSE d.fds[3]

\* the parent sides of the pipes, in the order childProcess closes them
Leftovers(d) == <<d.in1, d.out0, d.err0, d.cenv0, d.cenv1, d.fail0>>

ExtraFd == OpenMax - 1

\* the open file each descriptor refers to when childProcess starts
FileOf(L, fd) ==
    CASE fd \in L.gone -> "closed"
      [] fd = L.fail1 -> "failW"
      [] fd = L.fail0 -> "failR"
      [] fd = SrcIn(L) -> "src0"
      [] fd = SrcOut(L) -> "src1"
      [] fd = SrcErr(L) -> "src2"
      [] fd = L.in1 -> "in1"
      [] fd = L.out0 -> "out0"
      [] fd = L.err0 -> "err0"
      [] fd = L.cenv0 -> "cenv0"
      [] fd = L.cenv1 -> "cenv1"
      [] fd = STDIN_FILENO -> "std0"
      [] fd = STDOUT_FILENO -> "std1"
      [] fd = STDERR_FILENO -> "std2"
      [] fd = ExtraFd -> "extra"
      [] OTHER -> "closed"

\* three pipes for the standard streams, parent's own stdio open
LayoutPipes ==
    [in0 |-> 3, in1 |-> 4, out0 |-> 5, out1 |-> 6, err0 |-> 7, err1 |-> 8,
     cenv0 |-> NoFd, cenv1 |-> NoFd, fail0 |-> 9, fail1 |-> 10,
     fds |-> <<NoFd, NoFd, NoFd>>, gone |-> {}]

\* the standard streams inherited
LayoutInherit ==
    [in0 |-> NoFd, in1 |-> NoFd, out0 |-> NoFd, out1 |-> NoFd,
     err0 |-> NoFd, err1 |-> NoFd,
     cenv0 |-> NoFd, cenv1 |-> NoFd, fail0 |-> 3, fail1 |-> 4,
     fds |-> <<0, 1, 2>>, gone |-> {}]

\* launched through the spawn helper: childenv pipe, files for stdout/stderr
LayoutSpawn ==
    [in0 |-> 3, in1 |-> 4, out0 |-> NoFd, out1 |-> NoFd,
     err0 |-> NoFd, err1 |-> NoFd,
     cenv0 |-> 7, cenv1 |-> 8, fail0 |-> 9, fail1 |-> 10,
     fds |-> <<NoFd, 5, 6>>, gone |-> {}]

DirA == <<"/", "a">>
DirB == <<"/", "b", "/">>
DirLong == <<"/", "l", "o", "n", "g">>
Prog == <<"p">>
ProgPath == <<"/", "x", "/", "p">>
WorkDir == <<"/", "w">>
DirC == <<"/", "c">>

\* the argument vector memory: argv[0], one more argument, the NULL, the spare slot
ArgvFor(file) == <<file, <<"-", "v">>, NULL, <<"?">>>>

\* no separate call of readFully or writeFully is under way
NoIO == [fn |-> "none"]

InitWith(L, m, ping, redir, dir, envv, file, pathv, xfl, errs) ==
    /\ p = [in0 |-> L.in0, in1 |-> L.in1, out0 |-> L.out0, out1 |-> L.out1,
            err0 |-> L.err0, err1 |-> L.err1, cenv0 |-> L.cenv0,
            cenv1 |-> L.cenv1, fail0 |-> L.fail0, fail1 |-> L.fail1,
            fds |-> L.fds, sendAlivePing |-> ping,
            redirectErrorStream |-> redir, mode |-> m, pdir |-> dir,
            envv |-> envv, file |-> file, fsErrnos |-> errs]
    /\ parentPathv = pathv
    /\ fdt = [fd \in Fds |-> FileOf(L, fd)]
    /\ fdflags = [fd \in Fds |-> IF fd = ExtraFd THEN xfl ELSE 0]
    /\ pc = "start"
    /\ sub = "dup2"
    /\ errno = 0
    /\ fail_pipe_fd = L.fail1
    /\ errnum = 0
    /\ wf = NoWrite
    /\ idx = 1
    /\ eintr = 0
    /\ dp = NoFd
    /\ dirents = <<>>
    /\ chan = <<>>
    /\ hist = <<>>
    /\ execs = <<>>
    /\ sigmask = "inherited"
    /\ cwd = <<"/">>
    /\ environ = "parentEnv"
    /\ argv = ArgvFor(file)
    /\ sticky_errno = 0
    /\ expanded_file = <<>>
    /\ cand = <<>>
    /\ image = [ok |-> FALSE]
    /\ exitStatus = NoFd
    /\ io = NoIO


(***************************************************************************)
(* Bookkeeping shared by the actions.                                      *)
(***************************************************************************)
\* the step of childProcess a position belongs to
Stage(at) ==
    CASE at = "ping_write" -> 1
      [] at = "close_leftovers" -> 2
      [] at = "move_in" -> 3
      [] at = "move_out" -> 4
      [] at \in {"merge_close", "merge_dup2", "move_err"} -> 5
      [] at = "move_fail" -> 6
      [] at \in {"opendir", "readdir", "scan"} -> 7
      [] at = "chdir" -> 8
      [] at = "sigmask" -> 9
      [] at = "start" -> 0
      [] at \in {"execvpe", "path_loop", "ex_call", "ex_shell"} -> 10
      [] OTHER -> 11

\* a completed call: where it was made, its arguments, its result, and the
\* errno it set if it failed
Log(op, a, b, res, e) ==
    hist' = Append(hist, [at |-> pc, op |-> op, a |-> a, b |-> b, res |-> res,
                          e |-> IF res = -1 THEN e ELSE 0])

\* goto WhyCantJohnnyExec with errno e: errnum = errno, writeFully starts
GotoTail(e) ==
    /\ pc' = "tail_write"
    /\ errnum' = e
    /\ wf' = [val |-> e, off |-> 0]

Goto(next) ==
    /\ pc' = next
    /\ UNCHANGED <<errnum, wf>>

\* what no step of childProcess assigns
constVars == <<p, parentPathv, io>>
dirVars == <<dp, dirents>>
envVars == <<sigmask, cwd, environ, argv>>
execVars == <<sticky_errno, expanded_file, cand, execs, image>>

(***************************************************************************)
(* writeFully: what one turn of its loop does with the result of write.    *)
(* "more": advance the buffer and loop; "retry": loop; otherwise return.   *)
(***************************************************************************)
writeFully(nbyte, remaining, n, e) ==
    IF n > 0
    THEN IF remaining - n <= 0
         THEN [act |-> "return", ret |-> nbyte]
         ELSE [act |-> "more", ret |-> 0]
    ELSE IF n = -1 /\ e = EINTR
    THEN [act |-> "retry", ret |-> 0]
    ELSE [act |-> "return", ret |-> -1]

\* (variant: end-of-file is reported as a failure)
readFully_eofFails(nbyte, remaining, n, e) ==
    IF n = 0
    THEN [act |-> "return", ret |-> -1]
    ELSE IF n > 0
    THEN IF remaining - n <= 0
         THEN [act |-> "return", ret |-> nbyte]
         ELSE [act |-> "more", ret |-> 0]
    ELSE IF e = EINTR
    THEN [act |-> "retry", ret |-> 0]
    ELSE [act |-> "return", ret |-> -1]

\* readFully (144-166): what one turn of its loop does with the result of read
readFully(nbyte, remaining, n, e) ==
    IF n = 0
    THEN [act |-> "return", ret |-> nbyte - remaining]
    ELSE IF n > 0
    THEN IF remaining - n <= 0
         THEN [act |-> "return", ret |-> nbyte]
         ELSE [act |-> "more", ret |-> 0]
    ELSE IF e = EINTR
    THEN [act |-> "retry", ret |-> 0]
    ELSE [act |-> "return", ret |-> -1]

\* (variant: the buffer pointer is not advanced after a partial write)
ChanAfter_noAdvance(n) ==
    IF n > 0 /\ fdt[fail_pipe_fd] = "failW"
    THEN chan \o [i \in 1 .. n |-> [byte |-> IntBytes(wf.val)[i], by |-> pc]]
    ELSE chan

\* the pipe after a write that took n bytes of the buffer, starting at wf.off
ChanAfter(n) ==
    IF n > 0 /\ fdt[fail_pipe_fd] = "failW"
    THEN chan \o [i \in 1 .. n |-> [byte |-> IntBytes(wf.val)[wf.off + i],
                                     by |-> pc]]
    ELSE chan

(***************************************************************************)
(* Step 1: the alive ping (childproc.c 362-369).                           *)
(***************************************************************************)
\* (variant: the ping is sent whether requested or not)
Begin_always ==
    /\ pc = "start"
    /\ pc' = "ping_write"
    /\ wf' = [val |-> CHILD_IS_ALIVE, off |-> 0]
    /\ UNCHANGED <<constVars, fdt, fdflags, sub, errno, fail_pipe_fd, errnum,
                   idx, eintr, dirVars, chan, hist, envVars, execVars,
                   exitStatus>>

\* if (p->sendAlivePing)
Begin ==
    /\ pc = "start"
    /\ pc' = IF p.sendAlivePing THEN "ping_write" ELSE "close_leftovers"
    /\ wf' = IF p.sendAlivePing THEN [val |-> CHILD_IS_ALIVE, off |-> 0] ELSE wf
    /\ UNCHANGED <<constVars, fdt, fdflags, sub, errno, fail_pipe_fd, errnum,
                   idx, eintr, dirVars, chan, hist, envVars, execVars,
                   exitStatus>>

\* (variant: the result of the ping's writeFully is not looked at)
AlivePing_unchecked ==
    /\ pc = "ping_write"
    /\ \E o \in Sys_write(fdt, errno, fail_pipe_fd, SizeofInt - wf.off) :
          LET r == writeFully(SizeofInt, SizeofInt - wf.off, o.n, o.e) IN
          /\ r.act = "retry" => eintr < MaxEintr
          /\ errno' = o.e
          /\ chan' = ChanAfter(o.n)
          /\ CASE r.act = "more" ->
                    /\ wf' = [wf EXCEPT !.off = @ + o.n]
                    /\ eintr' = 0
                    /\ UNCHANGED <<pc, hist, errnum>>
               [] r.act = "retry" ->
                    /\ eintr' = eintr + 1
                    /\ UNCHANGED <<pc, hist, errnum, wf>>
               [] OTHER ->
                    /\ eintr' = 0
                    /\ Log("writeFully", fail_pipe_fd, wf.val, r.ret, o.e)
                    /\ pc' = "close_leftovers"
                    /\ wf' = NoWrite
                    /\ UNCHANGED errnum
    /\ UNCHANGED <<constVars, fdt, fdflags, sub, fail_pipe_fd, idx, dirVars,
                   envVars, execVars, exitStatus>>

AlivePing ==
    /\ pc = "ping_write"
    /\ \E o \in Sys_write(fdt, errno, fail_pipe_fd, SizeofInt - wf.off) :
          LET r == writeFully(SizeofInt, SizeofInt - wf.off, o.n, o.e) IN
          /\ r.act = "retry" => eintr < MaxEintr
          /\ errno' = o.e
          /\ chan' = ChanAfter(o.n)
          /\ CASE r.act = "more" ->
                    /\ wf' = [wf EXCEPT !.off = @ + o.n]
                    /\ eintr' = 0
                    /\ UNCHANGED <<pc, hist, errnum>>
               [] r.act = "retry" ->
                    /\ eintr' = eintr + 1
                    /\ UNCHANGED <<pc, hist, errnum, wf>>
               [] OTHER ->
                    /\ eintr' = 0
                    /\ Log("writeFully", fail_pipe_fd, wf.val, r.ret, o.e)
                    /\ IF r.ret # SizeofInt
                       THEN GotoTail(o.e)
                       ELSE /\ pc' = "close_leftovers"
                            /\ wf' = NoWrite
                            /\ UNCHANGED errnum
    /\ UNCHANGED <<constVars, fdt, fdflags, sub, fail_pipe_fd, idx, dirVars,
                   envVars, execVars, exitStatus>>

(***************************************************************************)
(* Step 2: close the parent sides of the pipes (374-383).                  *)
(***************************************************************************)
CloseLeftovers ==
    /\ pc = "close_leftovers"
    /\ LET fd == Leftovers(p)[idx] IN
       \E o \in closeSafely(fdt, fdflags, errno, fd) :
          /\ fdt' = o.t
          /\ fdflags' = o.fl
          /\ errno' = o.e
          /\ Log("closeSafely", fd, NoFd, o.ret, o.e)
          /\ IF o.ret = -1
             THEN GotoTail(o.e) /\ idx' = idx
             ELSE IF idx = Len(Leftovers(p))
             THEN Goto("move_in") /\ idx' = 1
             ELSE Goto("close_leftovers") /\ idx' = idx + 1
    /\ UNCHANGED <<constVars, sub, fail_pipe_fd, eintr, dirVars, chan,
                   envVars, execVars, exitStatus>>

(***************************************************************************)
(* restartableDup2 (41-47) and moveDescriptor (121-130).                   *)
(* Both leave pc, errnum, wf, sub to the caller's continuation.            *)
(***************************************************************************)
\* one dup2 call of restartableDup2; onOk/onFail are positions
restartableDup2(from, to, onOk, onFail) ==
    \/ /\ IsOpen(fdt, from)
       /\ from # to
       /\ eintr < MaxEintr
       /\ eintr' = eintr + 1
       /\ errno' = EINTR
       /\ UNCHANGED <<fdt, fdflags, hist, pc, errnum, wf, sub>>
    \/ \E o \in Sys_dup2(fdt, fdflags, errno, from, to) :
          /\ eintr' = 0
          /\ fdt' = o.t
          /\ fdflags' = o.fl
          /\ errno' = o.e
          /\ Log("dup2", from, to, o.ret, o.e)
          /\ IF o.ret = -1
             THEN GotoTail(o.e) /\ sub' = "dup2"
             ELSE IF onOk = pc
             THEN Goto(pc) /\ sub' = "close"
             ELSE Goto(onOk) /\ sub' = "dup2"

\* (variant: the source is left open after the duplication)
moveDescriptor_noClose(from, to, next) ==
    IF from = to
    THEN /\ Goto(next)
         /\ UNCHANGED <<fdt, fdflags, errno, hist, eintr, sub>>
    ELSE restartableDup2(from, to, next, "tail_write")

\* (variant: source and target are not compared)
moveDescriptor_always(from, to, next) ==
    IF sub = "dup2"
    THEN restartableDup2(from, to, pc, "tail_write")
    ELSE \E o \in Sys_close(fdt, fdflags, errno, from) :
            /\ fdt' = o.t
            /\ fdflags' = o.fl
            /\ errno' = o.e
            /\ eintr' = 0
            /\ sub' = "dup2"
            /\ Log("close", from, NoFd, o.ret, o.e)
            /\ IF o.ret = -1 THEN GotoTail(o.e) ELSE Goto(next)

\* (variant: the result of closing the source is not looked at)
moveDescriptor_closeUnchecked(from, to, next) ==
    IF from = to
    THEN /\ Goto(next)
         /\ UNCHANGED <<fdt, fdflags, errno, hist, eintr, sub>>
    ELSE IF sub = "dup2"
    THEN restartableDup2(from, to, pc, "tail_write")
    ELSE \E o \in Sys_close(fdt, fdflags, errno, from) :
            /\ fdt' = o.t
            /\ fdflags' = o.fl
            /\ errno' = o.e
            /\ eintr' = 0
            /\ sub' = "dup2"
            /\ Log("close", from, NoFd, o.ret, o.e)
            /\ Goto(next)

moveDescriptor(from, to, next) ==
    IF from = to
    THEN /\ Goto(next)
         /\ UNCHANGED <<fdt, fdflags, errno, hist, eintr, sub>>
    ELSE IF sub = "dup2"
    THEN restartableDup2(from, to, pc, "tail_write")
    ELSE \E o \in Sys_close(fdt, fdflags, errno, from) :
            /\ fdt' = o.t
            /\ fdflags' = o.fl
            /\ errno' = o.e
            /\ eintr' = 0
            /\ sub' = "dup2"
            /\ Log("close", from, NoFd, o.ret, o.e)
            /\ IF o.ret = -1 THEN GotoTail(o.e) ELSE Goto(next)

(***************************************************************************)
(* Steps 3-6: give the child sides of the pipes their numbers (385-407).   *)
(***************************************************************************)
MoveIn ==
    /\ pc = "move_in"
    /\ moveDescriptor(SrcIn(p), STDIN_FILENO, "move_out")
    /\ UNCHANGED <<constVars, fail_pipe_fd, idx, dirVars, chan, envVars,
                   execVars, exitStatus>>

MoveOut ==
    /\ pc = "move_out"
    /\ moveDescriptor(SrcOut(p), STDOUT_FILENO,
                      IF p.redirectErrorStream THEN "merge_close" ELSE "move_err")
    /\ UNCHANGED <<constVars, fail_pipe_fd, idx, dirVars, chan, envVars,
                   execVars, exitStatus>>

MergeClose ==
    /\ pc = "merge_close"
    /\ \E o \in closeSafely(fdt, fdflags, errno, p.err1) :
          /\ fdt' = o.t
          /\ fdflags' = o.fl
          /\ errno' = o.e
          /\ Log("closeSafely", p.err1, NoFd, o.ret, o.e)
          /\ IF o.ret = -1 THEN GotoTail(o.e) ELSE Goto("merge_dup2")
    /\ UNCHANGED <<constVars, sub, fail_pipe_fd, idx, eintr, dirVars, chan,
                   envVars, execVars, exitStatus>>

\* (variant: stderr is duplicated onto stdout)
MergeDup2_reversed ==
    /\ pc = "merge_dup2"
    /\ restartableDup2(STDERR_FILENO, STDOUT_FILENO, "move_fail", "tail_write")
    /\ UNCHANGED <<constVars, fail_pipe_fd, idx, dirVars, chan, envVars,
                   execVars, exitStatus>>

MergeDup2 ==
    /\ pc = "merge_dup2"
    /\ restartableDup2(STDOUT_FILENO, STDERR_FILENO, "move_fail", "tail_write")
    /\ UNCHANGED <<constVars, fail_pipe_fd, idx, dirVars, chan, envVars,
                   execVars, exitStatus>>

MoveErr ==
    /\ pc = "move_err"
    /\ moveDescriptor(SrcErr(p), STDERR_FILENO, "move_fail")
    /\ UNCHANGED <<constVars, fail_pipe_fd, idx, dirVars, chan, envVars,
                   execVars, exitStatus>>

MoveFail ==
    /\ pc = "move_fail"
    /\ moveDescriptor(fail_pipe_fd, FAIL_FILENO, "opendir")
    /\ fail_pipe_fd' = IF pc' = "opendir" THEN FAIL_FILENO ELSE fail_pipe_fd
    /\ UNCHANGED <<constVars, idx, dirVars, chan, envVars, execVars, exitStatus>>


(***************************************************************************)
(* Step 7: mark everything beyond stderr close-on-exec (85-119, 409-416).  *)
(***************************************************************************)
\* (variant: the marking starts above the number of the fail pipe)
fd_from_beyond == STDERR_FILENO + 2

fd_from == STDERR_FILENO + 1

\* opendir(FD_DIR): the stream takes the lowest free descriptor
OpenDir ==
    /\ pc = "opendir"
    /\ \/ /\ errno' = EMFILE
          /\ Log("opendir", NoFd, NoFd, -1, EMFILE)
          /\ Goto("scan")
          /\ idx' = STDERR_FILENO + 1
          /\ UNCHANGED <<fdt, fdflags, dirVars>>
       \/ /\ LowestFree(fdt) # NoFd
          /\ LET d == LowestFree(fdt)
                 t2 == [fdt EXCEPT ![d] = "dir"]
             IN  /\ fdt' = t2
                 /\ fdflags' = [fdflags EXCEPT ![d] = FD_CLOEXEC]
                 /\ dp' = d
                 /\ dirents' = DirEntries(t2)
                 /\ Log("opendir", NoFd, NoFd, d, errno)
          /\ Goto("readdir")
          /\ UNCHANGED <<errno, idx>>
    /\ UNCHANGED <<constVars, sub, fail_pipe_fd, eintr, chan, envVars,
                   execVars, exitStatus>>

\* (variant: the stream is dropped with its descriptor left open)
CloseDir_leak ==
    /\ fdt' = fdt
    /\ dp' = NoFd
    /\ dirents' = <<>>

\* closedir(dp): the stream's descriptor is released
CloseDir ==
    /\ fdt' = [fdt EXCEPT ![dp] = "closed"]
    /\ dp' = NoFd
    /\ dirents' = <<>>

\* (variant: a failed marking of an enumerated descriptor ends the setup)
markDescriptorsCloseOnExec_fatal ==
    /\ pc = "readdir"
    /\ IF dirents = <<>>
       THEN /\ CloseDir
            /\ fdflags' = [fdflags EXCEPT ![dp] = 0]
            /\ Log("closedir", dp, NoFd, 0, errno)
            /\ Goto("chdir")
            /\ UNCHANGED <<errno, idx>>
       ELSE LET name == Head(dirents)
                fd == StrToL(name, 0)
            IN  IF isAsciiDigit(Head(name)) /\ fd >= fd_from
                THEN \E o \in markCloseOnExec(fdt, fdflags, errno, fd) :
                        /\ errno' = o.e
                        /\ Log("markCloseOnExec", fd, NoFd, o.ret, o.e)
                        /\ IF o.ret = -1
                           THEN /\ CloseDir
                                /\ fdflags' = [o.fl EXCEPT ![dp] = 0]
                                /\ GotoTail(o.e)
                                /\ idx' = idx
                           ELSE /\ dirents' = Tail(dirents)
                                /\ fdflags' = o.fl
                                /\ Goto("readdir")
                                /\ UNCHANGED <<fdt, dp, idx>>
                ELSE /\ dirents' = Tail(dirents)
                     /\ UNCHANGED <<fdt, fdflags, dp, errno, hist, pc, errnum,
                                    wf, idx>>
    /\ UNCHANGED <<constVars, sub, fail_pipe_fd, eintr, chan, envVars,
                   execVars, exitStatus>>

\* one turn of the readdir loop of markDescriptorsCloseOnExec
markDescriptorsCloseOnExec ==
    /\ pc = "readdir"
    /\ IF dirents = <<>>
       THEN /\ CloseDir
            /\ fdflags' = [fdflags EXCEPT ![dp] = 0]
            /\ Log("closedir", dp, NoFd, 0, errno)
            /\ Goto("chdir")
            /\ UNCHANGED <<errno, idx>>
       ELSE LET name == Head(dirents)
                fd == StrToL(name, 0)
            IN  IF isAsciiDigit(Head(name)) /\ fd >= fd_from
                THEN \E o \in markCloseOnExec(fdt, fdflags, errno, fd) :
                        /\ errno' = o.e
                        /\ Log("markCloseOnExec", fd, NoFd, o.ret, o.e)
                        /\ IF o.ret = -1
                           THEN /\ CloseDir
                                /\ fdflags' = [o.fl EXCEPT ![dp] = 0]
                                /\ Goto("scan")
                                /\ idx' = STDERR_FILENO + 1
                           ELSE /\ dirents' = Tail(dirents)
                                /\ fdflags' = o.fl
                                /\ Goto("readdir")
                                /\ UNCHANGED <<fdt, dp, idx>>
                ELSE /\ dirents' = Tail(dirents)
                     /\ UNCHANGED <<fdt, fdflags, dp, errno, hist, pc, errnum,
                                    wf, idx>>
    /\ UNCHANGED <<constVars, sub, fail_pipe_fd, eintr, chan, envVars,
                   execVars, exitStatus>>

\* "close the old way": one turn of the loop over all descriptor numbers
max_fd == OpenMax

\* (variant: EBADF ends the scan like any other errno)
ScanDescriptors_strict ==
    /\ pc = "scan"
    /\ IF idx < max_fd
       THEN \E o \in markCloseOnExec(fdt, fdflags, errno, idx) :
               /\ errno' = o.e
               /\ fdflags' = o.fl
               /\ Log("markCloseOnExec", idx, NoFd, o.ret, o.e)
               /\ IF o.ret = -1
                  THEN GotoTail(o.e) /\ idx' = idx
                  ELSE Goto("scan") /\ idx' = idx + 1
       ELSE /\ Goto("chdir")
            /\ UNCHANGED <<errno, fdflags, hist, idx>>
    /\ UNCHANGED <<constVars, fdt, sub, fail_pipe_fd, eintr, dirVars, chan,
                   envVars, execVars, exitStatus>>

ScanDescriptors ==
    /\ pc = "scan"
    /\ IF idx < max_fd
       THEN \E o \in markCloseOnExec(fdt, fdflags, errno, idx) :
               /\ errno' = o.e
               /\ fdflags' = o.fl
               /\ Log("markCloseOnExec", idx, NoFd, o.ret, o.e)
               /\ IF o.ret = -1 /\ o.e # EBADF
                  THEN GotoTail(o.e) /\ idx' = idx
                  ELSE Goto("scan") /\ idx' = idx + 1
       ELSE /\ Goto("chdir")
            /\ UNCHANGED <<errno, fdflags, hist, idx>>
    /\ UNCHANGED <<constVars, fdt, sub, fail_pipe_fd, eintr, dirVars, chan,
                   envVars, execVars, exitStatus>>

(***************************************************************************)
(* Step 8: chdir (418-420).  Step 9: signal mask (422-427).                *)
(***************************************************************************)
\* (variant: the result of chdir is not looked at)
ChangeDir_unchecked ==
    /\ pc = "chdir"
    /\ IF p.pdir # NULL
       THEN \/ /\ cwd' = p.pdir
               /\ Log("chdir", NoFd, NoFd, 0, errno)
               /\ UNCHANGED errno
            \/ /\ errno' = ENOENT
               /\ Log("chdir", NoFd, NoFd, -1, ENOENT)
               /\ UNCHANGED cwd
       ELSE UNCHANGED <<cwd, errno, hist>>
    /\ Goto("sigmask")
    /\ UNCHANGED <<constVars, fdt, fdflags, sub, fail_pipe_fd, idx, eintr,
                   dirVars, chan, sigmask, environ, argv, execVars, exitStatus>>

ChangeDir ==
    /\ pc = "chdir"
    /\ IF p.pdir # NULL
       THEN \/ /\ cwd' = p.pdir
               /\ Log("chdir", NoFd, NoFd, 0, errno)
               /\ Goto("sigmask")
               /\ UNCHANGED errno
            \/ /\ errno' = ENOENT
               /\ Log("chdir", NoFd, NoFd, -1, ENOENT)
               /\ GotoTail(ENOENT)
               /\ UNCHANGED cwd
       ELSE /\ Goto("sigmask")
            /\ UNCHANGED <<cwd, errno, hist>>
    /\ UNCHANGED <<constVars, fdt, fdflags, sub, fail_pipe_fd, idx, eintr,
                   dirVars, chan, sigmask, environ, argv, execVars, exitStatus>>

\* the result of sigprocmask is not looked at
ResetSignalMask ==
    /\ pc = "sigmask"
    /\ IF p.mode # MODE_VFORK
       THEN \/ /\ sigmask' = "empty"
               /\ Log("sigprocmask", NoFd, NoFd, 0, errno)
               /\ UNCHANGED errno
            \/ /\ errno' = EINVAL
               /\ Log("sigprocmask", NoFd, NoFd, -1, EINVAL)
               /\ UNCHANGED sigmask
       ELSE UNCHANGED <<sigmask, errno, hist>>
    /\ Goto("execvpe")
    /\ UNCHANGED <<constVars, fdt, fdflags, sub, fail_pipe_fd, idx, eintr,
                   dirVars, chan, cwd, environ, argv, execVars, exitStatus>>


(***************************************************************************)
(* Step 10: program execution (227-348).                                   *)
(* An exec call either replaces the process image or fails with one of     *)
(* the errno values the file system at hand can produce (p.fsErrnos).      *)
(***************************************************************************)
Range(q) == {q[i] : i \in 1 .. Len(q)}

\* number of elements of the vector before its NULL
RECURSIVE Argc(_)
Argc(av) == IF av = <<>> \/ Head(av) = NULL THEN 0 ELSE 1 + Argc(Tail(av))

\* memmove of n words inside the vector (positions count from 1)
Memmove(mem, dst, src, n) ==
    [i \in 1 .. Len(mem) |->
        IF i >= dst /\ i < dst + n THEN mem[src + (i - dst)] ELSE mem[i]]

\* the descriptor table the new program image starts with
AfterExec(t, fl) ==
    [fd \in Fds |-> IF HasCloexec(fl[fd]) THEN "closed" ELSE t[fd]]

\* the exec call succeeded: the image is replaced
Replaced(prim, file, av, env) ==
    /\ pc' = "execed"
    /\ image' = [ok |-> TRUE, prim |-> prim, file |-> file,
                 argv |-> SubSeq(av, 1, Argc(av)), env |-> env]
    /\ fdt' = AfterExec(fdt, fdflags)
    /\ execs' = Append(execs, [prim |-> prim, file |-> file, argv |-> av,
                               env |-> env, e |-> 0])
    /\ Log(prim, NoFd, NoFd, 0, errno)
    /\ UNCHANGED <<errno, errnum, wf>>

\* the exec call failed with errno e
Failed(prim, file, av, env, e) ==
    /\ errno' = e
    /\ execs' = Append(execs, [prim |-> prim, file |-> file, argv |-> av,
                               env |-> env, e |-> e])
    /\ Log(prim, NoFd, NoFd, -1, e)
    /\ UNCHANGED <<fdt, image>>

\* (variant: only a missing or unreadable file lets the search go on)
SearchGoesOn_few(e) == e \in {EACCES, ENOENT}

\* errno values after which the PATH search goes on (322-343)
SearchGoesOn(e) ==
    e \in {EACCES, ENOENT, ENOTDIR, ELOOP, ESTALE, ENODEV, ETIMEDOUT}

\* (variant: a failed path with a separator falls into the PATH search)
AfterAttempt_searches(e) ==
    /\ sticky_errno' = IF e = EACCES THEN e ELSE sticky_errno
    /\ IF SearchGoesOn(e)
       THEN Goto("path_loop") /\ idx' = idx + 1
       ELSE GotoTail(e) /\ idx' = idx

\* (variant: the loop steps over the directory after the failed one)
AfterAttempt_skip(e) ==
    IF "/" \in Range(p.file)
    THEN GotoTail(e) /\ UNCHANGED <<idx, sticky_errno>>
    ELSE /\ sticky_errno' = IF e = EACCES THEN e ELSE sticky_errno
         /\ IF SearchGoesOn(e)
            THEN Goto("path_loop") /\ idx' = idx + 2
            ELSE GotoTail(e) /\ idx' = idx

\* back in JDK_execvpe after execve_with_shell_fallback returned with errno e
AfterAttempt(e) ==
    IF "/" \in Range(p.file)
    THEN GotoTail(e) /\ UNCHANGED <<idx, sticky_errno>>
    ELSE /\ sticky_errno' = IF e = EACCES THEN e ELSE sticky_errno
         /\ IF SearchGoesOn(e)
            THEN Goto("path_loop") /\ idx' = idx + 1
            ELSE GotoTail(e) /\ idx' = idx

\* (variant: the separator is put in whatever the directory ends with)
Expand_slash(dir, file) == dir \o <<"/">> \o file

\* dir + "/" + file as lines 304-308 build it
Expand(dir, file) ==
    dir \o (IF dir[Len(dir)] # "/" THEN <<"/">> ELSE <<>>) \o file

\* (variant: the empty program path is not tested for)
JDK_execvpe_noEmpty ==
    /\ pc = "execvpe"
    /\ LET file == argv[1] IN
       IF p.envv = "NULL" \/ p.envv = environ
       THEN /\ \/ Replaced("execvp", file, argv, environ)
               \/ \E e \in p.fsErrnos :
                     /\ Failed("execvp", file, argv, environ, e)
                     /\ GotoTail(e)
            /\ UNCHANGED <<idx, sticky_errno, cand>>
       ELSE IF "/" \in Range(file)
       THEN /\ cand' = file
            /\ Goto("ex_call")
            /\ UNCHANGED <<fdt, errno, idx, sticky_errno, execs, image, hist>>
       ELSE /\ idx' = 1
            /\ sticky_errno' = 0
            /\ Goto("path_loop")
            /\ UNCHANGED <<fdt, errno, cand, execs, image, hist>>
    /\ UNCHANGED <<constVars, fdflags, sub, fail_pipe_fd, eintr, dirVars, chan,
                   envVars, expanded_file, exitStatus>>

\* (variant: the environment vector is not compared with NULL and environ)
JDK_execvpe_searches ==
    /\ pc = "execvpe"
    /\ LET file == argv[1] IN
       IF file = <<>>
       THEN /\ errno' = ENOENT
            /\ GotoTail(ENOENT)
            /\ UNCHANGED <<fdt, idx, sticky_errno, cand, execs, image, hist>>
       ELSE IF "/" \in Range(file)
       THEN /\ cand' = file
            /\ Goto("ex_call")
            /\ UNCHANGED <<fdt, errno, idx, sticky_errno, execs, image, hist>>
       ELSE /\ idx' = 1
            /\ sticky_errno' = 0
            /\ Goto("path_loop")
            /\ UNCHANGED <<fdt, errno, cand, execs, image, hist>>
    /\ UNCHANGED <<constVars, fdflags, sub, fail_pipe_fd, eintr, dirVars, chan,
                   envVars, expanded_file, exitStatus>>

\* entry of JDK_execvpe (279-296)
JDK_execvpe ==
    /\ pc = "execvpe"
    /\ LET file == argv[1] IN
       IF p.envv = "NULL" \/ p.envv = environ
       THEN /\ \/ Replaced("execvp", file, argv, environ)
               \/ \E e \in p.fsErrnos :
                     /\ Failed("execvp", file, argv, environ, e)
                     /\ GotoTail(e)
            /\ UNCHANGED <<idx, sticky_errno, cand>>
       ELSE IF file = <<>>
       THEN /\ errno' = ENOENT
            /\ GotoTail(ENOENT)
            /\ UNCHANGED <<fdt, idx, sticky_errno, cand, execs, image, hist>>
       ELSE IF "/" \in Range(file)
       THEN /\ cand' = file
            /\ Goto("ex_call")
            /\ UNCHANGED <<fdt, errno, idx, sticky_errno, execs, image, hist>>
       ELSE /\ idx' = 1
            /\ sticky_errno' = 0
            /\ Goto("path_loop")
            /\ UNCHANGED <<fdt, errno, cand, execs, image, hist>>
    /\ UNCHANGED <<constVars, fdflags, sub, fail_pipe_fd, eintr, dirVars, chan,
                   envVars, expanded_file, exitStatus>>

\* (variant: the candidate is built whatever its length)
PathSearch_noLimit ==
    /\ pc = "path_loop"
    /\ IF idx > Len(parentPathv)
       THEN /\ errno' = IF sticky_errno # 0 THEN sticky_errno ELSE errno
            /\ GotoTail(errno')
            /\ UNCHANGED <<idx, expanded_file, cand>>
       ELSE LET dir == parentPathv[idx] IN
            /\ expanded_file' = Expand(dir, p.file)
            /\ cand' = Expand(dir, p.file)
            /\ Goto("ex_call")
            /\ UNCHANGED <<errno, idx>>
    /\ UNCHANGED <<constVars, fdt, fdflags, sub, fail_pipe_fd, eintr, dirVars,
                   chan, hist, envVars, sticky_errno, execs, image, exitStatus>>

\* (variant: the sticky errno is not put back after the loop)
PathSearch_noSticky ==
    /\ pc = "path_loop"
    /\ IF idx > Len(parentPathv)
       THEN /\ errno' = errno
            /\ GotoTail(errno')
            /\ UNCHANGED <<idx, expanded_file, cand>>
       ELSE LET dir == parentPathv[idx] IN
            IF Len(p.file) + Len(dir) + 2 >= PATH_MAX
            THEN /\ errno' = ENAMETOOLONG
                 /\ idx' = idx + 1
                 /\ UNCHANGED <<pc, errnum, wf, expanded_file, cand>>
            ELSE /\ expanded_file' = Expand(dir, p.file)
                 /\ cand' = Expand(dir, p.file)
                 /\ Goto("ex_call")
                 /\ UNCHANGED <<errno, idx>>
    /\ UNCHANGED <<constVars, fdt, fdflags, sub, fail_pipe_fd, eintr, dirVars,
                   chan, hist, envVars, sticky_errno, execs, image, exitStatus>>

\* one turn of the loop over the saved PATH list (297-309, 345-346)
PathSearch ==
    /\ pc = "path_loop"
    /\ IF idx > Len(parentPathv)
       THEN /\ errno' = IF sticky_errno # 0 THEN sticky_errno ELSE errno
            /\ GotoTail(errno')
            /\ UNCHANGED <<idx, expanded_file, cand>>
       ELSE LET dir == parentPathv[idx] IN
            IF Len(p.file) + Len(dir) + 2 >= PATH_MAX
            THEN /\ errno' = ENAMETOOLONG
                 /\ idx' = idx + 1
                 /\ UNCHANGED <<pc, errnum, wf, expanded_file, cand>>
            ELSE /\ expanded_file' = Expand(dir, p.file)
                 /\ cand' = Expand(dir, p.file)
                 /\ Goto("ex_call")
                 /\ UNCHANGED <<errno, idx>>
    /\ UNCHANGED <<constVars, fdt, fdflags, sub, fail_pipe_fd, eintr, dirVars,
                   chan, hist, envVars, sticky_errno, execs, image, exitStatus>>

\* (variant: every mode takes the execve branch with its shell re-exec)
execve_with_shell_fallback_shared ==
    /\ pc = "ex_call"
    /\ \/ /\ Replaced("execve", cand, argv, p.envv)
          /\ UNCHANGED <<idx, sticky_errno>>
       \/ \E e \in p.fsErrnos :
             /\ Failed("execve", cand, argv, p.envv, e)
             /\ IF e = ENOEXEC
                THEN Goto("ex_shell") /\ UNCHANGED <<idx, sticky_errno>>
                ELSE AfterAttempt(e)
    /\ UNCHANGED environ
    /\ UNCHANGED <<constVars, fdflags, sub, fail_pipe_fd, eintr, dirVars, chan,
                   sigmask, cwd, argv, expanded_file, cand, exitStatus>>

\* (variant: every mode assigns environ and calls execvp)
execve_with_shell_fallback_environ ==
    /\ pc = "ex_call"
    /\ environ' = p.envv
    /\ \/ /\ Replaced("execvp", cand, argv, p.envv)
          /\ UNCHANGED <<idx, sticky_errno>>
       \/ \E e \in p.fsErrnos :
             /\ Failed("execvp", cand, argv, p.envv, e)
             /\ AfterAttempt(e)
    /\ UNCHANGED <<constVars, fdflags, sub, fail_pipe_fd, eintr, dirVars, chan,
                   sigmask, cwd, argv, expanded_file, cand, exitStatus>>

\* execve_with_shell_fallback (250-265)
execve_with_shell_fallback ==
    /\ pc = "ex_call"
    /\ IF p.mode = MODE_VFORK
       THEN /\ \/ /\ Replaced("execve", cand, argv, p.envv)
                  /\ UNCHANGED <<idx, sticky_errno>>
               \/ \E e \in p.fsErrnos :
                     /\ Failed("execve", cand, argv, p.envv, e)
                     /\ IF e = ENOEXEC
                        THEN Goto("ex_shell") /\ UNCHANGED <<idx, sticky_errno>>
                        ELSE AfterAttempt(e)
            /\ UNCHANGED environ
       ELSE /\ environ' = p.envv
            /\ \/ /\ Replaced("execvp", cand, argv, p.envv)
                  /\ UNCHANGED <<idx, sticky_errno>>
               \/ \E e \in p.fsErrnos :
                     /\ Failed("execvp", cand, argv, p.envv, e)
                     /\ AfterAttempt(e)
    /\ UNCHANGED <<constVars, fdflags, sub, fail_pipe_fd, eintr, dirVars, chan,
                   sigmask, cwd, argv, expanded_file, cand, exitStatus>>

\* (variant: the vector is left as the shell attempt shaped it)
execve_as_traditional_shell_script_kept ==
    /\ pc = "ex_shell"
    /\ LET n == Argc(argv)
           shifted == Memmove(argv, 3, 2, n)
           shaped == [shifted EXCEPT ![1] = BinSh, ![2] = cand]
       IN  \/ /\ argv' = shaped
              /\ Replaced("execve", BinSh, shaped, p.envv)
              /\ UNCHANGED <<idx, sticky_errno>>
           \/ \E e \in p.fsErrnos :
                 /\ Failed("execve", BinSh, shaped, p.envv, e)
                 /\ argv' = shaped
                 /\ AfterAttempt(e)
    /\ UNCHANGED <<constVars, fdflags, sub, fail_pipe_fd, eintr, dirVars, chan,
                   sigmask, cwd, environ, expanded_file, cand, exitStatus>>

\* execve_as_traditional_shell_script (227-244)
execve_as_traditional_shell_script ==
    /\ pc = "ex_shell"
    /\ LET argv0 == argv[1]
           n == Argc(argv)
           shifted == Memmove(argv, 3, 2, n)
           shaped == [shifted EXCEPT ![1] = BinSh, ![2] = cand]
           back == Memmove(shaped, 2, 3, n)
       IN  \/ /\ argv' = shaped
              /\ Replaced("execve", BinSh, shaped, p.envv)
              /\ UNCHANGED <<idx, sticky_errno>>
           \/ \E e \in p.fsErrnos :
                 /\ Failed("execve", BinSh, shaped, p.envv, e)
                 /\ argv' = [back EXCEPT ![1] = argv0]
                 /\ AfterAttempt(e)
    /\ UNCHANGED <<constVars, fdflags, sub, fail_pipe_fd, eintr, dirVars, chan,
                   sigmask, cwd, environ, expanded_file, cand, exitStatus>>

(***************************************************************************)
(* WhyCantJohnnyExec (431-448).                                            *)
(***************************************************************************)
\* writeFully(fail_pipe_fd, &errnum, sizeof(errnum)); its result is dropped
TailWrite ==
    /\ pc = "tail_write"
    /\ \E o \in Sys_write(fdt, errno, fail_pipe_fd, SizeofInt - wf.off) :
          LET r == writeFully(SizeofInt, SizeofInt - wf.off, o.n, o.e) IN
          /\ r.act = "retry" => eintr < MaxEintr
          /\ errno' = o.e
          /\ chan' = ChanAfter(o.n)
          /\ CASE r.act = "more" ->
                    /\ wf' = [wf EXCEPT !.off = @ + o.n]
                    /\ eintr' = 0
                    /\ UNCHANGED <<pc, hist>>
               [] r.act = "retry" ->
                    /\ eintr' = eintr + 1
                    /\ UNCHANGED <<pc, hist, wf>>
               [] OTHER ->
                    /\ eintr' = 0
                    /\ wf' = NoWrite
                    /\ Log("writeFully", fail_pipe_fd, wf.val, r.ret, o.e)
                    /\ pc' = "tail_close"
    /\ UNCHANGED <<constVars, fdt, fdflags, sub, fail_pipe_fd, errnum, idx,
                   dirVars, envVars, execVars, exitStatus>>

\* (variant: the fail pipe is not closed before the exit)
TailClose_none ==
    /\ pc = "tail_close"
    /\ pc' = "tail_exit"
    /\ UNCHANGED <<constVars, fdt, fdflags, sub, errno, fail_pipe_fd, errnum,
                   wf, idx, eintr, dirVars, chan, hist, envVars, execVars,
                   exitStatus>>

\* close(fail_pipe_fd); its result is dropped
TailClose ==
    /\ pc = "tail_close"
    /\ \E o \in Sys_close(fdt, fdflags, errno, fail_pipe_fd) :
          /\ fdt' = o.t
          /\ fdflags' = o.fl
          /\ errno' = o.e
          /\ Log("close", fail_pipe_fd, NoFd, o.ret, o.e)
    /\ pc' = "tail_exit"
    /\ UNCHANGED <<constVars, sub, fail_pipe_fd, errnum, wf, idx, eintr,
                   dirVars, chan, envVars, execVars, exitStatus>>

\* (variant: the function returns to its caller instead of exiting)
TailExit_returns ==
    /\ pc = "tail_exit"
    /\ pc' = "returned"
    /\ UNCHANGED <<constVars, fdt, fdflags, sub, errno, fail_pipe_fd, errnum,
                   wf, idx, eintr, dirVars, chan, hist, envVars, execVars,
                   exitStatus>>

\* (variant: exit status 0)
TailExit_status0 ==
    /\ pc = "tail_exit"
    /\ exitStatus' = 0
    /\ fdt' = [fd \in Fds |-> "closed"]
    /\ Log("_exit", NoFd, NoFd, 0, errno)
    /\ pc' = "exited"
    /\ UNCHANGED <<constVars, fdflags, sub, errno, fail_pipe_fd, errnum, wf,
                   idx, eintr, dirVars, chan, envVars, execVars>>

\* _exit(-1): the process is gone, and with it every descriptor it held
TailExit ==
    /\ pc = "tail_exit"
    /\ exitStatus' = (0 - 1) % 256
    /\ fdt' = [fd \in Fds |-> "closed"]
    /\ Log("_exit", NoFd, NoFd, 0, errno)
    /\ pc' = "exited"
    /\ UNCHANGED <<constVars, fdflags, sub, errno, fail_pipe_fd, errnum, wf,
                   idx, eintr, dirVars, chan, envVars, execVars>>

(***************************************************************************)
(* The specification.                                                      *)
(***************************************************************************)
Layouts == {LayoutPipes, LayoutInherit, LayoutSpawn}

ModesOf(L) == IF L.cenv0 # NoFd THEN {MODE_POSIX_SPAWN} ELSE {MODE_FORK, MODE_VFORK}

\* prefixes of a fixed directory list, up to MaxDirs entries
PathLists == {SubSeq(<<DirA, DirLong, DirB, DirA>>, 1, n) : n \in 0 .. MaxDirs}

ExecSetups ==
    {[envv |-> "NULL", file |-> Prog, pathv |-> <<DirA>>],
     [envv |-> "parentEnv", file |-> ProgPath, pathv |-> <<DirA>>],
     [envv |-> "childEnv", file |-> <<>>, pathv |-> <<DirA>>],
     [envv |-> "childEnv", file |-> ProgPath, pathv |-> <<DirA>>]}
    \cup {[envv |-> "childEnv", file |-> Prog, pathv |-> l] : l \in PathLists}

FewErrnos == {EACCES, ENOENT, ENOEXEC, E2BIG}

\* every way of rewiring, with the plainest exec
InitRewire ==
    \E L \in Layouts, ping \in BOOLEAN, redir \in BOOLEAN, dir \in {NULL, WorkDir} :
       \E m \in ModesOf(L) :
          InitWith(L, m, ping, redir, dir, "NULL", Prog, <<DirA>>, 2, FewErrnos)

\* every way of executing, with one way of rewiring
InitExecs ==
    \E x \in ExecSetups, m \in {MODE_FORK, MODE_VFORK} :
       InitWith(LayoutPipes, m, TRUE, FALSE, WorkDir, x.envv, x.file, x.pathv,
                2, FewErrnos)

Init == InitRewire \/ InitExecs

\* the standard streams given as descriptors fds[0..2] with every assignment
\* of distinct numbers out of SourceNumbers
SourceNumbers == {0, 1, 2, 5}

LayoutSources(s0, s1, s2) ==
    [in0 |-> NoFd, in1 |-> NoFd, out0 |-> NoFd, out1 |-> NoFd,
     err0 |-> NoFd, err1 |-> NoFd,
     cenv0 |-> NoFd, cenv1 |-> NoFd, fail0 |-> 9, fail1 |-> 10,
     fds |-> <<s0, s1, s2>>, gone |-> {}]

InitSources ==
    \E s0 \in SourceNumbers, redir \in BOOLEAN :
       \E s1 \in SourceNumbers \ {s0} :
       \E s2 \in SourceNumbers \ {s0, s1} :
          InitWith(LayoutSources(s0, s1, s2), MODE_FORK, FALSE, redir, NULL,
                   "NULL", Prog, <<DirA>>, 2, {ENOENT})

InitMove == InitSources \/ InitExecs

\* launch descriptors naming a descriptor number that is not open (any more)
\* when the child starts; the write end of the fail pipe is always open
StaleFds == {0, 1, 4, 7, 9}

InitStale ==
    \E L \in Layouts, redir \in BOOLEAN :
       \E m \in ModesOf(L), g \in {{}} \cup {{fd} : fd \in StaleFds \ {L.fail1}} :
          InitWith([L EXCEPT !.gone = g], m, FALSE, redir, NULL,
                   "NULL", Prog, <<DirA>>, 2, {ENOENT})

InitGone == InitStale \/ InitExecs

\* the PATH search over lists of up to three directories, some too long
ExecPathLists ==
    {<<>>, <<DirA>>, <<DirA, DirB>>, <<DirA, DirB, DirC>>, <<DirLong>>,
     <<DirA, DirLong>>, <<DirLong, DirB>>, <<DirA, DirLong, DirC>>}

\* the errno values after which the search goes on, and one after which it stops
ManyErrnos == {EACCES, ENOENT, ENOTDIR, ELOOP, ESTALE, ENODEV, ETIMEDOUT, E2BIG}

\* stderr is merged into stdout with one of the lists only
InitPath ==
    \E l \in ExecPathLists, redir \in BOOLEAN :
       \E s \in {[m |-> MODE_FORK, errs |-> ManyErrnos],
                 [m |-> MODE_VFORK, errs |-> FewErrnos]} :
          /\ redir => l = <<DirA>>
          /\ InitWith(LayoutPipes, s.m, FALSE, redir, NULL, "childEnv", Prog, l,
                      2, s.errs)

InitExec == InitPath \/ InitExecs

Next ==
    \/ Begin
    \/ AlivePing
    \/ CloseLeftovers
    \/ MoveIn
    \/ MoveOut
    \/ MergeClose
    \/ MergeDup2
    \/ MoveErr
    \/ MoveFail
    \/ OpenDir
    \/ markDescriptorsCloseOnExec
    \/ ScanDescriptors
    \/ ChangeDir
    \/ ResetSignalMask
    \/ JDK_execvpe
    \/ PathSearch
    \/ execve_with_shell_fallback
    \/ execve_as_traditional_shell_script
    \/ TailWrite
    \/ TailClose
    \/ TailExit

Spec == Init /\ [][Next]_vars

\* the child is a running process: it keeps taking steps until exec or _exit
FairSpec == Init /\ [][Next]_vars /\ WF_vars(Next)

\* the same program over every numbering of the standard stream sources
SpecMove == InitMove /\ [][Next]_vars

\* the same program started with some named descriptor not open
SpecGone == InitGone /\ [][Next]_vars

\* the same program over longer PATH lists and more exec failures
SpecExec == InitExec /\ [][Next]_vars

(***************************************************************************)
(* readFully and writeFully on their own (144-206): one call on an open    *)
(* descriptor, one step per turn of the loop.  The transport answers each  *)
(* read or write with any result the system call can have.                 *)
(***************************************************************************)
IoFd == FAIL_FILENO

\* the bytes of the caller's buffer (writeFully), of the stream (readFully)
IoData(n) == [i \in 1 .. n |-> 10 + i]

\* the call starts: nbyte to transfer, avail bytes before end-of-file
IoStart(fn, nbyte, avail) ==
    [fn |-> fn, nbyte |-> nbyte, remaining |-> nbyte, off |-> 0,
     data |-> IoData(IF fn = "writeFully" THEN nbyte ELSE avail),
     buf |-> [i \in 1 .. nbyte |-> 0], out |-> <<>>, pos |-> 0,
     calls |-> <<>>, last |-> [n |-> 1, e |-> 0], good |-> TRUE, ret |-> 0]

InitIO ==
    /\ \E fn \in {"readFully", "writeFully"}, nbyte \in 0 .. MaxBytes,
          avail \in 0 .. MaxBytes + 1 :
          /\ fn = "writeFully" => avail = 0
          /\ io = IoStart(fn, nbyte, avail)
    /\ pc = "io_call"
    /\ p = [mode |-> MODE_FORK]
    /\ parentPathv = <<>>
    /\ fdt = [fd \in Fds |-> IF fd = IoFd THEN "pipe" ELSE "closed"]
    /\ fdflags = [fd \in Fds |-> 0]
    /\ sub = "dup2"
    /\ errno = 0
    /\ fail_pipe_fd = IoFd
    /\ errnum = 0
    /\ wf = NoWrite
    /\ idx = 1
    /\ eintr = 0
    /\ dp = NoFd
    /\ dirents = <<>>
    /\ chan = <<>>
    /\ hist = <<>>
    /\ execs = <<>>
    /\ sigmask = "inherited"
    /\ cwd = <<"/">>
    /\ environ = "parentEnv"
    /\ argv = <<NULL>>
    /\ sticky_errno = 0
    /\ expanded_file = <<>>
    /\ cand = <<>>
    /\ image = [ok |-> FALSE]
    /\ exitStatus = NoFd

childVars == <<p, parentPathv, fdt, fdflags, sub, fail_pipe_fd, errnum, wf,
               idx, dirVars, chan, hist, envVars, execVars, exitStatus>>

\* what both loops do with the answer [n, e] once r says how the turn ends
IoTurn(o, r) ==
    /\ r.act = "retry" => eintr < MaxEintr
    /\ eintr' = IF r.act = "retry" THEN eintr + 1 ELSE 0
    /\ errno' = o.e
    /\ pc' = IF r.act = "return" THEN "io_done" ELSE pc

\* the transport did what C15 asks of it: EINTR, or a piece of positive size
Transferred(o) == o.n > 0 \/ (o.n = -1 /\ o.e = EINTR)

\* one turn of the loop of readFully
ReadFullyTurn ==
    /\ pc = "io_call"
    /\ io.fn = "readFully"
    /\ \E o \in Sys_read(fdt, errno, IoFd, Len(io.data) - io.pos, io.remaining) :
          LET r == readFully(io.nbyte, io.remaining, o.n, o.e)
              got == IF o.n > 0 THEN o.n ELSE 0
          IN  /\ IoTurn(o, r)
              /\ io' = [io EXCEPT
                          !.buf = [i \in 1 .. io.nbyte |->
                                     IF i > io.off /\ i <= io.off + got
                                     THEN io.data[io.pos + (i - io.off)]
                                     ELSE io.buf[i]],
                          !.pos = @ + got,
                          !.remaining = @ - got,
                          !.off = IF r.act = "more" THEN @ + o.n ELSE @,
                          !.calls = Append(@, [from |-> io.off,
                                               count |-> io.remaining,
                                               done |-> io.pos]),
                          !.last = o,
                          !.good = @ /\ Transferred(o),
                          !.ret = IF r.act = "return" THEN r.ret ELSE @]
    /\ UNCHANGED childVars

\* (variant: buf is not advanced after a partial write)
WriteFullyTurn_noAdvance ==
    /\ pc = "io_call"
    /\ io.fn = "writeFully"
    /\ \E o \in Sys_write(fdt, errno, IoFd, io.remaining) :
          LET r == writeFully(io.nbyte, io.remaining, o.n, o.e)
              put == IF o.n > 0 THEN o.n ELSE 0
          IN  /\ IoTurn(o, r)
              /\ io' = [io EXCEPT
                          !.out = @ \o [i \in 1 .. put |-> io.data[io.off + i]],
                          !.remaining = @ - put,
                          !.calls = Append(@, [from |-> io.off,
                                               count |-> io.remaining,
                                               done |-> Len(io.out)]),
                          !.last = o,
                          !.good = @ /\ Transferred(o),
                          !.ret = IF r.act = "return" THEN r.ret ELSE @]
    /\ UNCHANGED childVars

\* one turn of the loop of writeFully
WriteFullyTurn ==
    /\ pc = "io_call"
    /\ io.fn = "writeFully"
    /\ \E o \in Sys_write(fdt, errno, IoFd, io.remaining) :
          LET r == writeFully(io.nbyte, io.remaining, o.n, o.e)
              put == IF o.n > 0 THEN o.n ELSE 0
          IN  /\ IoTurn(o, r)
              /\ io' = [io EXCEPT
                          !.out = @ \o [i \in 1 .. put |-> io.data[io.off + i]],
                          !.remaining = @ - put,
                          !.off = IF r.act = "more" THEN @ + o.n ELSE @,
                          !.calls = Append(@, [from |-> io.off,
                                               count |-> io.remaining,
                                               done |-> Len(io.out)]),
                          !.last = o,
                          !.good = @ /\ Transferred(o),
                          !.ret = IF r.act = "return" THEN r.ret ELSE @]
    /\ UNCHANGED childVars

NextIO ==
    \/ ReadFullyTurn
    \/ WriteFullyTurn

SpecIO == InitIO /\ [][NextIO]_vars


(***************************************************************************)
(* Vocabulary of the properties.                                           *)
(***************************************************************************)
TailPositions == {"tail_write", "tail_close", "tail_exit", "exited"}
ExecPositions == {"execvpe", "path_loop", "ex_call", "ex_shell"}
ExecOps == {"execve", "execvp"}

Bytes(q) == [i \in 1 .. Len(q) |-> q[i].byte]
IsPrefix(a, b) == Len(a) <= Len(b) /\ SubSeq(b, 1, Len(a)) = a

\* bytes of the pipe by the call that wrote them
PingPart == SelectSeq(chan, LAMBDA x : x.by = "ping_write")
ErrPart == SelectSeq(chan, LAMBDA x : x.by = "tail_write")

\* descriptors that refer to the write end of the fail pipe
Holders == {fd \in Fds : fdt[fd] = "failW"}

\* the calls the failure tail completed
TailCalls == SelectSeq(hist, LAMBDA h : h.at \in TailPositions)

(***************************************************************************)
(* C1 as stated: a run ends either in a successful exec with no error code *)
(* written, or with the error code written to the fail pipe, the pipe      *)
(* closed and a non-zero exit status.                                      *)
(***************************************************************************)
Orig_C1 ==
    /\ pc = "execed" => image.ok /\ ErrPart = <<>>
    /\ pc = "exited" =>
          /\ Bytes(ErrPart) = IntBytes(errnum)
          /\ Holders = {}
          /\ exitStatus > 0

(***************************************************************************)
(* C1 (amended): a run ends in exactly one of two ways.  (a) An exec       *)
(* succeeded, no error byte was written and the tail never ran.  (b) The   *)
(* tail made one writeFully attempt for the error code (what reached the   *)
(* pipe is a prefix of the code, the whole code exactly when writeFully    *)
(* returned its size), the fail pipe is closed and the exit status is      *)
(* non-zero.  No exec call follows a call of the tail, and the tail never  *)
(* runs after a successful exec.                                           *)
(***************************************************************************)
Thm_C1 ==
    /\ pc = "execed" =>
          /\ image.ok
          /\ exitStatus = NoFd
          /\ ErrPart = <<>>
          /\ TailCalls = <<>>
    /\ pc = "exited" =>
          /\ ~image.ok
          /\ exitStatus > 0
          /\ Holders = {}
          /\ Cardinality({i \in 1 .. Len(hist) :
                            hist[i].at = "tail_write" /\ hist[i].op = "writeFully"}) = 1
          /\ IsPrefix(Bytes(ErrPart), IntBytes(errnum))
          /\ (TailCalls[1].res = SizeofInt) <=> (Bytes(ErrPart) = IntBytes(errnum))
    /\ image.ok => pc = "execed"
    /\ \A i, j \in 1 .. Len(hist) :
          i < j /\ hist[i].at \in TailPositions => hist[j].op \notin ExecOps
    /\ pc \in TailPositions => ~image.ok

\* the tail ran and no byte of the error code reached the pipe
Wit_C1 ==
    /\ pc = "exited"
    /\ ErrPart = <<>>
    /\ TailCalls[1].res = -1

(***************************************************************************)
(* C2 as stated: what the parent can read after the sentinel is nothing,   *)
(* or exactly one complete error code.                                     *)
(***************************************************************************)
Orig_C2 ==
    pc \in {"execed", "exited"} => Len(ErrPart) \in {0, SizeofInt}

(***************************************************************************)
(* C2 (amended): the pipe holds a prefix of the sentinel (nothing if no    *)
(* ping was requested, the whole sentinel if the ping write completed)     *)
(* followed by a prefix of one error code: the whole code when the tail's  *)
(* writeFully succeeded, a proper prefix only when a write call of the     *)
(* tail failed.  Nothing follows the error code.                           *)
(***************************************************************************)
Thm_C2 ==
    /\ chan = PingPart \o ErrPart
    /\ IsPrefix(Bytes(PingPart), IntBytes(CHILD_IS_ALIVE))
    /\ ~p.sendAlivePing => PingPart = <<>>
    /\ IsPrefix(Bytes(ErrPart), IntBytes(errnum))
    /\ pc \in {"tail_close", "tail_exit", "exited"} =>
          /\ TailCalls[1].res = SizeofInt => Len(ErrPart) = SizeofInt
          /\ TailCalls[1].res # SizeofInt => Len(ErrPart) < SizeofInt
    /\ pc \notin TailPositions => ErrPart = <<>>
    /\ (pc \notin {"start", "ping_write"} \cup TailPositions /\ p.sendAlivePing)
          => Len(PingPart) = SizeofInt

\* a write of the tail failed after part of the error code had gone out
Wit_C2 ==
    /\ pc = "exited"
    /\ Len(ErrPart) > 0
    /\ Len(ErrPart) < SizeofInt

(***************************************************************************)
(* C3: whenever an exec is attempted, the write end of the fail pipe is    *)
(* held at FAIL_FILENO only and that descriptor is close-on-exec; in the   *)
(* new image no descriptor holds it and no error byte was written.         *)
(***************************************************************************)
Thm_C3 ==
    /\ pc \in ExecPositions =>
          /\ Holders = {FAIL_FILENO}
          /\ HasCloexec(fdflags[FAIL_FILENO])
          /\ fail_pipe_fd = FAIL_FILENO
    /\ pc = "execed" => Holders = {} /\ ErrPart = <<>>

\* a later candidate of the PATH search was executed
Wit_C3 ==
    /\ pc = "execed"
    /\ Len(execs) >= 2
    /\ p.fail1 # FAIL_FILENO

(***************************************************************************)
(* C4: at every exec attempt each open descriptor above stderr is          *)
(* close-on-exec, under both quarantine strategies, so that the new image  *)
(* has no descriptor open other than 0, 1 and 2.                           *)
(***************************************************************************)
Thm_C4 ==
    /\ pc \in ExecPositions =>
          \A fd \in Fds : fd > STDERR_FILENO /\ IsOpen(fdt, fd) => HasCloexec(fdflags[fd])
    /\ pc = "execed" =>
          OpenFds(fdt) \subseteq {STDIN_FILENO, STDOUT_FILENO, STDERR_FILENO}

\* exec succeeded after the linear scan had to mark an inherited descriptor
Wit_C4 ==
    /\ pc = "execed"
    /\ \E i \in 1 .. Len(hist) : hist[i].op = "opendir" /\ hist[i].res = -1
    /\ fdflags[ExtraFd] = 3


(***************************************************************************)
(* C5: with EINTR reported only finitely often in a row (at most MaxEintr  *)
(* times here), every run reaches a successful exec or the _exit of the    *)
(* failure tail and stays there: childProcess does not return.             *)
(***************************************************************************)
Thm_C5 == <>[](pc \in {"execed", "exited"})

\* the tail's write was interrupted as often as the bound allows
Wit_C5 ==
    /\ pc = "tail_write"
    /\ eintr = MaxEintr
    /\ wf.off > 0

(***************************************************************************)
(* C6: the failure tail is one writeFully of the errno captured on entry,  *)
(* then one close of the same descriptor, then _exit with a non-zero       *)
(* status, each once and in this order, whatever the write returned.       *)
(***************************************************************************)
TailOps == <<"writeFully", "close", "_exit">>

Thm_C6 ==
    /\ [](/\ Len(TailCalls) <= 3
          /\ \A i \in 1 .. Len(TailCalls) : TailCalls[i].op = TailOps[i]
          /\ Len(TailCalls) >= 1 =>
                /\ TailCalls[1].a = fail_pipe_fd
                /\ TailCalls[1].b = errnum
          /\ Len(TailCalls) >= 2 => TailCalls[2].a = fail_pipe_fd
          /\ pc = "tail_close" => Len(TailCalls) = 1
          /\ pc = "tail_exit" => Len(TailCalls) = 2
          /\ pc = "exited" => Len(TailCalls) = 3 /\ exitStatus > 0)
    /\ [][/\ (pc \notin TailPositions /\ pc' \in TailPositions) =>
                /\ pc' = "tail_write"
                /\ errnum' = errno'
                /\ wf' = [val |-> errno', off |-> 0]
          /\ pc \in TailPositions =>
                /\ errnum' = errnum
                /\ fail_pipe_fd' = fail_pipe_fd
                /\ pc' \in TailPositions]_vars

\* the write failed with EPIPE, and the tail closed the pipe and exited
Wit_C6 ==
    /\ pc = "exited"
    /\ TailCalls[1].res = -1
    /\ TailCalls[1].e = EPIPE
    /\ TailCalls[2].res = 0

(***************************************************************************)
(* C7: a requested ping is the first call of the run, made once, on the    *)
(* original fail pipe descriptor; once it returned in full the pipe starts *)
(* with the sentinel, and every sentinel byte precedes every other byte.   *)
(* Without the request no sentinel byte is ever written.                   *)
(***************************************************************************)
Thm_C7 ==
    /\ ~p.sendAlivePing =>
          /\ PingPart = <<>>
          /\ \A i \in 1 .. Len(hist) : hist[i].at # "ping_write"
    /\ p.sendAlivePing =>
          /\ pc \in {"start", "ping_write"} => hist = <<>> /\ Holders = {p.fail1}
          /\ pc \notin {"start", "ping_write"} =>
                /\ hist[1].at = "ping_write"
                /\ hist[1].op = "writeFully"
                /\ hist[1].a = p.fail1
                /\ hist[1].b = CHILD_IS_ALIVE
                /\ hist[1].res = SizeofInt =>
                      /\ Len(chan) >= SizeofInt
                      /\ BytesInt(Bytes(SubSeq(chan, 1, SizeofInt))) = CHILD_IS_ALIVE
                      /\ Len(PingPart) = SizeofInt
          /\ \A i \in 2 .. Len(hist) : hist[i].at # "ping_write"
    /\ chan = PingPart \o ErrPart
    /\ IsPrefix(Bytes(PingPart), IntBytes(CHILD_IS_ALIVE))

\* the sentinel is in the pipe and nothing else has been done yet
Wit_C7 ==
    /\ p.sendAlivePing
    /\ pc = "close_leftovers"
    /\ Len(hist) = 1
    /\ BytesInt(Bytes(chan)) = CHILD_IS_ALIVE

(***************************************************************************)
(* C8: when the ping's writeFully does not return the full size, only the  *)
(* calls of the failure tail follow, and the tail writes the error code    *)
(* to the original descriptor of the fail pipe.                            *)
(***************************************************************************)
Thm_C8 ==
    (hist # <<>> /\ hist[1].at = "ping_write" /\ hist[1].res # SizeofInt) =>
       /\ pc \in TailPositions
       /\ \A i \in 2 .. Len(hist) : hist[i].at \in TailPositions
       /\ fail_pipe_fd = p.fail1
       /\ p.fail1 # FAIL_FILENO
       /\ Len(hist) >= 2 =>
             /\ hist[2].op = "writeFully"
             /\ hist[2].a = p.fail1
             /\ hist[2].b = hist[1].e
       /\ execs = <<>>
       /\ sigmask = "inherited"
       /\ cwd = <<"/">>
       /\ \A fd \in Fds : ~HasCloexec(fdflags[fd])
       /\ pc = "tail_write" => \A i \in 1 .. Len(Leftovers(p)) :
                                  Leftovers(p)[i] # NoFd => IsOpen(fdt, Leftovers(p)[i])

\* the ping was cut short after two bytes and the run ended in the tail
Wit_C8 ==
    /\ pc = "exited"
    /\ hist[1].at = "ping_write"
    /\ hist[1].res = -1
    /\ Len(PingPart) = 2

(***************************************************************************)
(* C9 as stated: the calls are made in the order of the steps, and after   *)
(* a failed step only the failure tail runs.  (Inside the quarantine a     *)
(* failed enumeration falls back to the scan and the scan passes over      *)
(* EBADF; inside exec resolution a failed candidate leads to the next:     *)
(* these are not failures of the step.)                                    *)
(***************************************************************************)
StepFailed(h) ==
    /\ h.res = -1
    /\ Stage(h.at) < 10
    /\ h.at \notin {"opendir", "readdir"}
    /\ ~(h.at = "scan" /\ h.e = EBADF)

Orig_C9 ==
    \A i, j \in 1 .. Len(hist) :
       i < j =>
          /\ Stage(hist[i].at) <= Stage(hist[j].at)
          /\ StepFailed(hist[i]) => hist[j].at \in TailPositions

(***************************************************************************)
(* C10 as stated: once the standard streams are rewired, descriptors 0, 1  *)
(* and (unless merged) 2 refer to the files the requested sources referred *)
(* to at the start, whatever the numbers of the sources.                   *)
(***************************************************************************)
Rewired == {"move_fail", "opendir", "readdir", "scan", "chdir", "sigmask"}
               \cup ExecPositions

Orig_C10 ==
    pc \in Rewired =>
       /\ fdt[STDIN_FILENO] = "src0"
       /\ fdt[STDOUT_FILENO] = "src1"
       /\ ~p.redirectErrorStream => fdt[STDERR_FILENO] = "src2"

(***************************************************************************)
(* C11: a moveDescriptor whose source is its target makes no dup2 and no   *)
(* close, leaves descriptor table, flags and errno as they are, and        *)
(* returns success (the child goes on with the next statement), whether    *)
(* the descriptor is open or not.                                          *)
(***************************************************************************)
\* the positions of the four moveDescriptor calls: source, target, continuation
MoveCalls ==
    {[at |-> "move_in", from |-> SrcIn(p), to |-> STDIN_FILENO,
      next |-> {"move_out"}],
     [at |-> "move_out", from |-> SrcOut(p), to |-> STDOUT_FILENO,
      next |-> {"merge_close", "move_err"}],
     [at |-> "move_err", from |-> SrcErr(p), to |-> STDERR_FILENO,
      next |-> {"move_fail"}],
     [at |-> "move_fail", from |-> fail_pipe_fd, to |-> FAIL_FILENO,
      next |-> {"opendir"}]}

Thm_C11 ==
    [][\A c \in MoveCalls :
          (pc = c.at /\ c.from = c.to) =>
             /\ pc' \in c.next
             /\ UNCHANGED <<fdt, fdflags, errno, hist, chan>>]_vars

\* the stdin source is descriptor 0, not open, and the move has returned
Wit_C11 ==
    /\ pc = "move_out"
    /\ p.in0 = NoFd
    /\ p.fds[1] = STDIN_FILENO
    /\ fdt[STDIN_FILENO] = "closed"
    /\ \A i \in 1 .. Len(hist) : hist[i].at # "move_in"

(***************************************************************************)
(* C12: in the explicit PATH search the candidates attempted are, in       *)
(* order, dir/file for the directories of the saved list (the over-long    *)
(* ones left out); only the last exec made can have succeeded, and after   *)
(* a success nothing more is done: no further attempt, no byte in the      *)
(* fail pipe.                                                              *)
(***************************************************************************)
PathMode == p.envv # "NULL" /\ p.envv # "parentEnv" /\ p.file # <<>>
               /\ "/" \notin Range(p.file)

Fits(dir) == ~(Len(p.file) + Len(dir) + 2 >= PATH_MAX)

IsDirect(x) == x.file # BinSh

\* the candidates of the saved PATH list, in its order
Candidates ==
    LET dirs == SelectSeq(parentPathv, Fits)
    IN  [i \in 1 .. Len(dirs) |-> Expand(dirs[i], p.file)]

\* the files handed to execve_with_shell_fallback so far
Attempted ==
    LET d == SelectSeq(execs, IsDirect)
    IN  [i \in 1 .. Len(d) |-> d[i].file]

Thm_C12 ==
    /\ [](/\ PathMode => IsPrefix(Attempted, Candidates)
          /\ \A i \in 1 .. Len(execs) - 1 : execs[i].e # 0
          /\ pc = "execed" <=> image.ok
          /\ pc = "execed" =>
                /\ execs[Len(execs)].e = 0
                /\ ErrPart = <<>>
                /\ TailCalls = <<>>)
    /\ [][pc # "execed"]_vars

\* /a/p and /b/p failed with ENOENT and /c/p was executed
Wit_C12 ==
    /\ pc = "execed"
    /\ parentPathv = <<DirA, DirB, DirC>>
    /\ Len(execs) = 3
    /\ execs[1].file = <<"/", "a", "/", "p">> /\ execs[1].e = ENOENT
    /\ execs[2].file = <<"/", "b", "/", "p">> /\ execs[2].e = ENOENT
    /\ execs[3].file = <<"/", "c", "/", "p">> /\ execs[3].e = 0
    /\ chan = <<>>

(***************************************************************************)
(* C13: when the PATH loop runs off the end of a non-empty list, the       *)
(* errno handed to the failure tail is EACCES if some exec of the search   *)
(* failed with EACCES, and otherwise the errno the last directory left:    *)
(* ENAMETOOLONG if it was skipped, else that of the last exec made.        *)
(***************************************************************************)
Exhausted == pc = "path_loop" /\ idx > Len(parentPathv)

LastLeft ==
    IF Fits(parentPathv[Len(parentPathv)])
    THEN execs[Len(execs)].e
    ELSE ENAMETOOLONG

Thm_C13 ==
    [][(Exhausted /\ parentPathv # <<>>) =>
          /\ pc' = "tail_write"
          /\ errnum' = IF \E i \in 1 .. Len(execs) : execs[i].e = EACCES
                       THEN EACCES
                       ELSE LastLeft
          /\ wf' = [val |-> errnum', off |-> 0]
          /\ errno' = errnum']_vars

\* /a/p failed with EACCES, the long directory was skipped, /c/p failed with
\* ENOENT, and EACCES goes to the parent
Wit_C13 ==
    /\ pc = "tail_write"
    /\ parentPathv = <<DirA, DirLong, DirC>>
    /\ Len(execs) = 2
    /\ execs[1].e = EACCES
    /\ execs[2].e = ENOENT
    /\ errnum = EACCES

(***************************************************************************)
(* C14: in MODE_VFORK an execve of the candidate that fails with ENOEXEC   *)
(* is followed by an execve of /bin/sh with the vector /bin/sh, candidate, *)
(* argv[1], ..., NULL; when that fails too, argv[0] up to the NULL are as  *)
(* before and errno is the one of the /bin/sh attempt.  After any other    *)
(* errno there is no shell attempt and the vector is not written.          *)
(***************************************************************************)
LastExec(q) == q[Len(q)]

Thm_C14 ==
    /\ [](\A i \in 1 .. Len(execs) :
             /\ execs[i].file = BinSh =>
                   /\ p.mode = MODE_VFORK
                   /\ i > 1
                   /\ execs[i - 1].e = ENOEXEC
                   /\ execs[i - 1].file # BinSh
             /\ (execs[i].prim = "execve" /\ execs[i].file # BinSh
                    /\ execs[i].e = ENOEXEC /\ i = Len(execs)) => pc = "ex_shell")
    /\ [][(pc = "ex_call" /\ p.mode = MODE_VFORK) =>
             /\ Len(execs') = Len(execs) + 1
             /\ LastExec(execs').prim = "execve"
             /\ LastExec(execs').file = cand
             /\ LastExec(execs').argv = argv
             /\ argv' = argv
             /\ pc' = "ex_shell" <=> LastExec(execs').e = ENOEXEC
             /\ LastExec(execs').e # 0 => errno' = LastExec(execs').e]_vars
    /\ [][pc = "ex_shell" =>
             LET n == Argc(argv)
                 sh == LastExec(execs')
             IN  /\ Len(execs') = Len(execs) + 1
                 /\ sh.file = BinSh
                 /\ sh.argv[1] = BinSh
                 /\ sh.argv[2] = cand
                 /\ \A i \in 2 .. n + 1 : sh.argv[i + 1] = argv[i]
                 /\ sh.argv[n + 2] = NULL
                 /\ sh.e = 0 =>
                       image'.argv = <<BinSh, cand>> \o SubSeq(argv, 2, n)
                 /\ sh.e # 0 =>
                       /\ \A i \in 1 .. n + 1 : argv'[i] = argv[i]
                       /\ errno' = sh.e
                       /\ pc' = "tail_write" => errnum' = sh.e]_vars
    /\ [][pc \notin {"ex_shell"} => argv' = argv]_vars

\* the script could not be run by /bin/sh either: the vector is back
Wit_C14 ==
    /\ pc = "tail_write"
    /\ p.mode = MODE_VFORK
    /\ Len(execs) = 2
    /\ execs[1].e = ENOEXEC
    /\ execs[1].argv = <<ProgPath, <<"-", "v">>, NULL, <<"?">>>>
    /\ execs[2].argv = <<BinSh, ProgPath, <<"-", "v">>, NULL>>
    /\ execs[2].e = E2BIG
    /\ argv = <<ProgPath, <<"-", "v">>, NULL, NULL>>
    /\ errnum = E2BIG

(***************************************************************************)
(* C15: as long as the transport answers with EINTR or with a piece of     *)
(* positive size, every call of read or write starts at the first byte     *)
(* not yet transferred and asks for exactly the count still missing, the   *)
(* bytes transferred so far are the first ones of the buffer in order,     *)
(* and the function returns nbyte with all nbyte bytes transferred.        *)
(***************************************************************************)
IoDone == pc = "io_done"

\* the bytes that have arrived: in the pipe (write), in the buffer (read)
IoMoved == io.nbyte - io.remaining

Thm_C15 ==
    io.good =>
       /\ \A i \in 1 .. Len(io.calls) :
             /\ io.calls[i].from = io.calls[i].done
             /\ io.calls[i].count = io.nbyte - io.calls[i].done
       /\ io.fn = "writeFully" =>
             /\ io.out = SubSeq(io.data, 1, IoMoved)
             /\ IoDone => io.ret = io.nbyte /\ io.out = io.data
       /\ io.fn = "readFully" =>
             /\ SubSeq(io.buf, 1, IoMoved) = SubSeq(io.data, 1, IoMoved)
             /\ \A i \in IoMoved + 1 .. io.nbyte : io.buf[i] = 0
             /\ IoDone => /\ io.ret = io.nbyte
                          /\ io.buf = SubSeq(io.data, 1, io.nbyte)

\* three bytes read in three pieces with an EINTR in between
Wit_C15 ==
    /\ IoDone
    /\ io.good
    /\ io.fn = "readFully"
    /\ io.nbyte = 3
    /\ Len(io.calls) = 4
    /\ io.buf = <<11, 12, 13>>

(***************************************************************************)
(* C16 as stated: in MODE_VFORK the memory shared with the parent is       *)
(* never written before a successful exec or the exit: environ is the      *)
(* parent's, every exec call is handed the argument vector with the        *)
(* contents the caller gave it, and the vector has them whenever no exec   *)
(* has succeeded.                                                          *)
(***************************************************************************)
Orig_C16 ==
    p.mode = MODE_VFORK =>
       /\ environ = "parentEnv"
       /\ \A i \in 1 .. Len(execs) : execs[i].argv = ArgvFor(p.file)
       /\ pc # "execed" => argv = ArgvFor(p.file)

(***************************************************************************)
(* C17 as stated: once a setup step has failed (a closeSafely, dup2 or     *)
(* close of the rewiring, a markCloseOnExec of the scan other than EBADF,  *)
(* chdir, sigprocmask) the child is in the failure tail, no exec has been  *)
(* or will be attempted, and every later call is one of the tail.          *)
(***************************************************************************)
Orig_C17 ==
    \A i \in 1 .. Len(hist) :
       StepFailed(hist[i]) =>
          /\ pc \in TailPositions
          /\ execs = <<>>
          /\ \A j \in i + 1 .. Len(hist) : hist[j].op \notin ExecOps

(***************************************************************************)
(* C18: readFully returns nbyte when the last read completed the count,    *)
(* the number of bytes obtained when read returned 0 (end-of-file), and    *)
(* -1 exactly when read failed with an errno other than EINTR, which is    *)
(* then the value of errno; no read asks for more than the bytes still     *)
(* missing, so that never more than nbyte bytes are obtained.              *)
(***************************************************************************)
Thm_C18 ==
    io.fn = "readFully" =>
       /\ \A i \in 1 .. Len(io.calls) :
             io.calls[i].done + io.calls[i].count <= io.nbyte
       /\ io.pos <= io.nbyte
       /\ io.pos = IoMoved
       /\ ~IoDone => io.pos < io.nbyte \/ io.nbyte = 0
       /\ IoDone =>
             CASE io.last.n > 0 -> io.ret = io.nbyte /\ io.pos = io.nbyte
               [] io.last.n = 0 ->
                     /\ io.ret = io.pos
                     /\ io.ret >= 0
                     /\ io.ret < io.nbyte \/ io.nbyte = 0
               [] OTHER ->
                     /\ io.last.e # EINTR
                     /\ io.ret = -1
                     /\ errno = io.last.e

\* end-of-file after two of three bytes, which came one by one
Wit_C18 ==
    /\ IoDone
    /\ io.fn = "readFully"
    /\ io.nbyte = 3
    /\ Len(io.data) = 2
    /\ Len(io.calls) = 3
    /\ io.last.n = 0
    /\ io.ret = 2

(***************************************************************************)
(* C19 as stated: writeFully returns nbyte or -1, nbyte exactly when all   *)
(* nbyte bytes were written, and -1 only after a write that failed with    *)
(* an errno other than EINTR, which is then the value of errno; for every  *)
(* nbyte from 0 on and whatever the writes return.                         *)
(***************************************************************************)
Orig_C19 ==
    (io.fn = "writeFully" /\ IoDone) =>
       /\ io.ret \in {io.nbyte, -1}
       /\ io.ret = io.nbyte <=> Len(io.out) = io.nbyte
       /\ io.ret = -1 =>
             /\ io.last.n = -1
             /\ io.last.e # EINTR
             /\ errno = io.last.e

(***************************************************************************)
(* C20 as stated: no closeSafely of a leftover pipe end fails because the  *)
(* descriptor is absent (-1) or not open (close reports EBADF exactly      *)
(* then); the run goes on with the next leftover.                          *)
(***************************************************************************)
Orig_C20 ==
    \A i \in 1 .. Len(hist) :
       (hist[i].at = "close_leftovers"
           /\ (hist[i].a = NoFd \/ hist[i].e = EBADF)) =>
          /\ hist[i].res = 0
          /\ i = Len(hist) => pc \notin TailPositions

(***************************************************************************)
(* C21: a moveDescriptor whose source differs from its target calls dup2   *)
(* of the source onto the target, again after each EINTR, and after a      *)
(* successful dup2 closes the source.  When dup2 fails the descriptor      *)
(* table is as before (the source is not closed) and the child goes to     *)
(* the failure tail; after a successful dup2 the target refers to the file *)
(* of the source, and it still does when the close fails and the child     *)
(* goes to the tail; when the close succeeds the source is closed and the  *)
(* child goes on with the next statement.                                  *)
(***************************************************************************)
Thm_C21 ==
    /\ [](\A c \in MoveCalls :
             (pc = c.at /\ c.from # c.to /\ sub = "close") =>
                /\ IsOpen(fdt, c.from)
                /\ fdt[c.to] = fdt[c.from])
    /\ [][\A c \in MoveCalls :
             (pc = c.at /\ c.from # c.to) =>
                LET last == hist'[Len(hist')] IN
                IF sub = "dup2"
                THEN \/ /\ errno' = EINTR
                        /\ eintr' = eintr + 1
                        /\ pc' = pc
                        /\ sub' = "dup2"
                        /\ UNCHANGED <<fdt, fdflags, hist>>
                     \/ /\ Len(hist') = Len(hist) + 1
                        /\ last.op = "dup2"
                        /\ last.a = c.from
                        /\ last.b = c.to
                        /\ IF last.res = -1
                           THEN /\ pc' = "tail_write"
                                /\ errnum' = last.e
                                /\ UNCHANGED <<fdt, fdflags>>
                           ELSE /\ pc' = pc
                                /\ sub' = "close"
                                /\ fdt' = [fdt EXCEPT ![c.to] = fdt[c.from]]
                ELSE /\ Len(hist') = Len(hist) + 1
                     /\ last.op = "close"
                     /\ last.a = c.from
                     /\ fdt'[c.to] = fdt[c.to]
                     /\ IF last.res = -1
                        THEN pc' = "tail_write" /\ errnum' = last.e
                        ELSE pc' \in c.next /\ fdt'[c.from] = "closed"]_vars

\* descriptor 0 has the file of the stdin source, and closing the source failed
Wit_C21 ==
    /\ pc = "tail_write"
    /\ hist[Len(hist)].at = "move_in"
    /\ hist[Len(hist)].op = "close"
    /\ hist[Len(hist)].res = -1
    /\ SrcIn(p) # STDIN_FILENO
    /\ fdt[STDIN_FILENO] = "src0"

(***************************************************************************)
(* C22: with redirectErrorStream set, closeSafely(err[1]) is called, then  *)
(* dup2(1, 2), and no move onto descriptor 2 is made: once the step is     *)
(* done, descriptors 1 and 2 refer to the same open file, that file is not *)
(* the requested stderr sink, and a separate sink err[1] is closed.        *)
(* Without it, no such close and no dup2(1, 2) is made, and the move onto  *)
(* descriptor 2 is the one of the requested sink (err[1], else fds[2]):    *)
(* its dup2 leaves descriptor 2 with the file that number refers to.       *)
(***************************************************************************)
MergePositions == {"merge_close", "merge_dup2"}

Thm_C22 ==
    /\ [](/\ p.redirectErrorStream =>
                /\ \A i \in 1 .. Len(hist) :
                      /\ hist[i].at # "move_err"
                      /\ hist[i].at = "merge_close" =>
                            /\ hist[i].op = "closeSafely"
                            /\ hist[i].a = p.err1
                      /\ hist[i].at = "merge_dup2" =>
                            /\ hist[i].op = "dup2"
                            /\ hist[i].a = STDOUT_FILENO
                            /\ hist[i].b = STDERR_FILENO
                            /\ hist[i - 1].at = "merge_close"
                            /\ hist[i - 1].res = 0
                /\ pc \in Rewired =>
                      /\ IsOpen(fdt, STDOUT_FILENO)
                      /\ fdt[STDERR_FILENO] = fdt[STDOUT_FILENO]
                      /\ fdt[STDERR_FILENO] # "src2"
                      /\ \E i \in 1 .. Len(hist) :
                            hist[i].at = "merge_dup2" /\ hist[i].res = STDERR_FILENO
                      /\ p.err1 # NoFd => \A fd \in Fds : fdt[fd] # "src2"
          /\ ~p.redirectErrorStream =>
                \A i \in 1 .. Len(hist) :
                   /\ hist[i].at \notin MergePositions
                   /\ hist[i].at = "move_err" =>
                         /\ hist[i].a = SrcErr(p)
                         /\ hist[i].op = "dup2" => hist[i].b = STDERR_FILENO)
    /\ [][(pc = "move_err" /\ sub = "dup2" /\ sub' = "close") =>
             fdt' = [fdt EXCEPT ![STDERR_FILENO] = fdt[SrcErr(p)]]]_vars
    /\ [][pc = "move_out" =>
             pc' \in {"move_out", "tail_write",
                      IF p.redirectErrorStream THEN "merge_close" ELSE "move_err"}]_vars

\* the pipe end err[1] is closed and descriptor 2 has the file of descriptor 1
Wit_C22 ==
    /\ pc = "move_fail"
    /\ p.redirectErrorStream
    /\ p.err1 = 8
    /\ fdt[p.err1] = "closed"
    /\ fdt[STDOUT_FILENO] = "src1"
    /\ fdt[STDERR_FILENO] = "src1"

(***************************************************************************)
(* C23 as stated: whenever the failure tail writes the error code and      *)
(* closes, its descriptor is open and refers to the write end of the fail  *)
(* pipe: FAIL_FILENO once the relocation has completed, the original       *)
(* number p->fail[1] before that, a failed relocation included.            *)
(***************************************************************************)
\* the move of the fail pipe onto FAIL_FILENO has returned success
Relocated ==
    \E i \in 1 .. Len(hist) :
       hist[i].at = "move_fail" /\ hist[i].op = "close" /\ hist[i].res = 0

Orig_C23 ==
    pc \in {"tail_write", "tail_close"} =>
       /\ IsOpen(fdt, fail_pipe_fd)
       /\ fdt[fail_pipe_fd] = "failW"
       /\ fail_pipe_fd = IF Relocated THEN FAIL_FILENO ELSE p.fail1

(***************************************************************************)
(* C24 as stated: the quarantine marks every open descriptor above stderr  *)
(* except the relocated fail pipe, which it never marks.                   *)
(***************************************************************************)
\* the positions after the quarantine stage
Quarantined == {"chdir", "sigmask"} \cup ExecPositions

Orig_C24 ==
    /\ \A i \in 1 .. Len(hist) :
          hist[i].op = "markCloseOnExec" => hist[i].a # FAIL_FILENO
    /\ pc \in Quarantined =>
          \A fd \in Fds :
             (fd > STDERR_FILENO /\ fd # FAIL_FILENO /\ IsOpen(fdt, fd)) =>
                HasCloexec(fdflags[fd])

(***************************************************************************)
(* C24 (amended): the quarantine calls markCloseOnExec only on descriptor  *)
(* numbers above stderr, and once it is done every open descriptor above   *)
(* stderr has been marked by it with success and is close-on-exec: the     *)
(* relocated fail pipe at FAIL_FILENO is one of them.                      *)
(***************************************************************************)
Thm_C24 ==
    /\ \A i \in 1 .. Len(hist) :
          hist[i].op = "markCloseOnExec" =>
             /\ hist[i].a > STDERR_FILENO
             /\ hist[i].at \in {"readdir", "scan"}
    /\ pc \in Quarantined =>
          /\ fdt[FAIL_FILENO] = "failW"
          /\ \A fd \in Fds :
                (fd > STDERR_FILENO /\ IsOpen(fdt, fd)) =>
                   /\ HasCloexec(fdflags[fd])
                   /\ \E i \in 1 .. Len(hist) :
                         /\ hist[i].op = "markCloseOnExec"
                         /\ hist[i].a = fd
                         /\ hist[i].res = 0

\* the enumeration has marked the fail pipe at FAIL_FILENO
Wit_C24 ==
    /\ pc = "chdir"
    /\ HasCloexec(fdflags[FAIL_FILENO])
    /\ \E i \in 1 .. Len(hist) :
          /\ hist[i].at = "readdir"
          /\ hist[i].op = "markCloseOnExec"
          /\ hist[i].a = FAIL_FILENO
          /\ hist[i].res = 0

(***************************************************************************)
(* C25 as stated: the linear scan runs only after opendir of the           *)
(* descriptor directory failed; it never runs when the directory could be  *)
(* opened, a failed marking of an enumerated descriptor included.          *)
(***************************************************************************)
\* the linear scan has started
Scanning == pc = "scan" \/ \E i \in 1 .. Len(hist) : hist[i].at = "scan"

ScanCalls == SelectSeq(hist, LAMBDA h : h.at = "scan")

Thm_C26 ==
    /\ [](/\ Len(ScanCalls) <= max_fd - (STDERR_FILENO + 1)
          /\ \A i \in 1 .. Len(ScanCalls) :
                /\ ScanCalls[i].op = "markCloseOnExec"
                /\ ScanCalls[i].a = STDERR_FILENO + i
                /\ (ScanCalls[i].res = -1 /\ ScanCalls[i].e # EBADF) =>
                      /\ i = Len(ScanCalls)
                      /\ pc \in TailPositions
                      /\ errnum = ScanCalls[i].e
                      /\ execs = <<>>
          /\ pc = "scan" => idx = STDERR_FILENO + 1 + Len(ScanCalls)
          /\ (Scanning /\ pc \in Quarantined) =>
                /\ Len(ScanCalls) = max_fd - (STDERR_FILENO + 1)
                /\ \A i \in 1 .. Len(ScanCalls) :
                      ScanCalls[i].res = 0 \/ ScanCalls[i].e = EBADF)
    /\ [][(pc = "scan" /\ idx < max_fd /\ ~IsOpen(fdt, idx)) =>
             /\ hist'[Len(hist')].a = idx
             /\ hist'[Len(hist')].res = -1
             /\ hist'[Len(hist')].e = EBADF
             /\ pc' = "scan"
             /\ idx' = idx + 1
             /\ UNCHANGED fdflags]_vars

\* unused numbers were passed over, then the last descriptor could not be marked
Wit_C26 ==
    /\ pc = "tail_write"
    /\ Len(ScanCalls) = max_fd - (STDERR_FILENO + 1)
    /\ hist[Len(hist)].at = "scan"
    /\ hist[Len(hist)].a = ExtraFd
    /\ hist[Len(hist)].e = EINVAL
    /\ \E i \in 1 .. Len(ScanCalls) : ScanCalls[i].e = EBADF
    /\ errnum = EINVAL

(***************************************************************************)
(* C27: for every descriptor number and every result markCloseOnExec can   *)
(* have in a reachable descriptor table: on success the close-on-exec bit  *)
(* of fd is set, its other flag bits and the flag words of the other       *)
(* descriptors are as before; with the bit already set no F_SETFD is       *)
(* issued, so a second application after a success writes nothing and      *)
(* changes nothing; a failure (of the fetch, or of the write that was      *)
(* needed) leaves all flag words as they were, and the fetch fails on a    *)
(* number that is not open.  Every marking step of the quarantine has one  *)
(* of these results.                                                       *)
(***************************************************************************)
\* the flag bits other than FD_CLOEXEC
OtherBits(flags) == flags - (IF HasCloexec(flags) THEN FD_CLOEXEC ELSE 0)

Thm_C27 ==
    /\ [](\A fd \in Fds :
             /\ \A o \in markCloseOnExec(fdt, fdflags, errno, fd) :
                   /\ o.ret \in {0, -1}
                   /\ o.ret = 0 =>
                         /\ IsOpen(fdt, fd)
                         /\ HasCloexec(o.fl[fd])
                         /\ OtherBits(o.fl[fd]) = OtherBits(fdflags[fd])
                         /\ \A g \in Fds \ {fd} : o.fl[g] = fdflags[g]
                         /\ o.e = errno
                         /\ o.wrote <=> ~HasCloexec(fdflags[fd])
                         /\ \A o2 \in markCloseOnExec(fdt, o.fl, o.e, fd) :
                               /\ ~o2.wrote
                               /\ o2.fl = o.fl
                   /\ o.ret = -1 => o.fl = fdflags
                   /\ HasCloexec(fdflags[fd]) => ~o.wrote /\ o.fl = fdflags
                   /\ ~IsOpen(fdt, fd) => o.ret = -1 /\ ~o.wrote
             /\ IsOpen(fdt, fd) =>
                   /\ \E o \in markCloseOnExec(fdt, fdflags, errno, fd) : o.ret = 0
                   /\ \E o \in markCloseOnExec(fdt, fdflags, errno, fd) :
                         o.ret = -1 /\ ~o.wrote
                   /\ ~HasCloexec(fdflags[fd]) =>
                         \E o \in markCloseOnExec(fdt, fdflags, errno, fd) :
                            o.ret = -1 /\ o.wrote)
    /\ [][(hist' # hist /\ hist'[Len(hist')].op = "markCloseOnExec") =>
             LET last == hist'[Len(hist')] IN
             /\ \E o \in markCloseOnExec(fdt, fdflags, errno, last.a) :
                   /\ last.res = o.ret
                   /\ errno' = o.e
                   /\ last.res = 0 => fdflags' = o.fl
             /\ last.res = -1 =>
                   \A g \in Fds \ {dp} : fdflags'[g] = fdflags[g]
             /\ last.res = 0 =>
                   /\ HasCloexec(fdflags'[last.a])
                   /\ OtherBits(fdflags'[last.a]) = OtherBits(fdflags[last.a])
                   /\ \A g \in Fds \ {last.a} : fdflags'[g] = fdflags[g]]_vars

\* the fail pipe was marked twice (by the enumeration, then by the scan), and
\* the inherited descriptor kept its other flag bit
Wit_C27 ==
    /\ pc = "chdir"
    /\ fdflags[FAIL_FILENO] = FD_CLOEXEC
    /\ fdflags[ExtraFd] = 2 + FD_CLOEXEC
    /\ Cardinality({i \in 1 .. Len(hist) :
                      /\ hist[i].op = "markCloseOnExec"
                      /\ hist[i].a = FAIL_FILENO
                      /\ hist[i].res = 0}) = 2

(***************************************************************************)
(* C28: chdir is never called when p->pdir is NULL; with a directory given *)
(* it is called once on every run that gets past the quarantine, at most   *)
(* once on any run, right after the quarantine and before the signal mask  *)
(* and any exec call.  When it fails, the child is in the failure tail     *)
(* with the errno of chdir as the error code, no exec is made, and what    *)
(* is written to the fail pipe are bytes of that errno.                    *)
(***************************************************************************)
ChdirCalls == {i \in 1 .. Len(hist) : hist[i].op = "chdir"}

Thm_C28 ==
    /\ p.pdir = NULL => ChdirCalls = {} /\ cwd = <<"/">>
    /\ Cardinality(ChdirCalls) <= 1
    /\ (p.pdir # NULL /\ pc \in {"sigmask", "execed"} \cup ExecPositions) =>
          /\ Cardinality(ChdirCalls) = 1
          /\ cwd = p.pdir
    /\ (p.pdir # NULL /\ execs # <<>>) =>
          \E i \in ChdirCalls : hist[i].res = 0
    /\ \A i \in ChdirCalls :
          /\ hist[i].at = "chdir"
          /\ i > 1
          /\ hist[i - 1].at \in {"readdir", "scan"}
          /\ \A j \in 1 .. i - 1 :
                /\ Stage(hist[j].at) < Stage("chdir")
                /\ hist[j].op \notin ExecOps \cup {"sigprocmask"}
          /\ \A j \in i + 1 .. Len(hist) : Stage(hist[j].at) > Stage("chdir")
          /\ hist[i].res = 0 => cwd = p.pdir
          /\ hist[i].res = -1 =>
                /\ pc \in TailPositions
                /\ execs = <<>>
                /\ cwd = <<"/">>
                /\ errnum = hist[i].e
                /\ IsPrefix(Bytes(ErrPart), IntBytes(hist[i].e))
                /\ i < Len(hist) =>
                      /\ hist[i + 1].op = "writeFully"
                      /\ hist[i + 1].b = hist[i].e
                /\ \A j \in i + 1 .. Len(hist) : hist[j].at \in TailPositions

\* chdir failed with ENOENT, and ENOENT is what the parent reads
Wit_C28 ==
    /\ pc = "exited"
    /\ \E i \in ChdirCalls : hist[i].res = -1 /\ hist[i].e = ENOENT
    /\ execs = <<>>
    /\ BytesInt(Bytes(ErrPart)) = ENOENT
    /\ Len(ErrPart) = SizeofInt

(***************************************************************************)
(* C29 as stated: whenever an exec is attempted the signal mask is empty   *)
(* exactly when the mode is not MODE_VFORK; the mask is changed by the one *)
(* sigprocmask call only, which comes after chdir and before every exec    *)
(* call; in MODE_VFORK there is no such call and the mask stays as         *)
(* inherited.                                                              *)
(***************************************************************************)
MaskCalls == {i \in 1 .. Len(hist) : hist[i].op = "sigprocmask"}

Orig_C29 ==
    /\ pc \in ExecPositions \cup {"execed"} =>
          (sigmask = "empty" <=> p.mode # MODE_VFORK)
    /\ execs # <<>> => (sigmask = "empty" <=> p.mode # MODE_VFORK)
    /\ sigmask = "empty" => MaskCalls # {}
    /\ Cardinality(MaskCalls) <= 1
    /\ \A i \in MaskCalls :
          /\ hist[i].at = "sigmask"
          /\ \A j \in 1 .. i - 1 :
                Stage(hist[j].at) < Stage("sigmask") /\ hist[j].op \notin ExecOps
          /\ \A j \in i + 1 .. Len(hist) : Stage(hist[j].at) > Stage("sigmask")
    /\ p.mode = MODE_VFORK => MaskCalls = {} /\ sigmask = "inherited"

(***************************************************************************)
(* C30: with envp NULL or equal to environ, JDK_execvpe makes one call of  *)
(* execvp with argv[0] and the argument vector as given, in every mode,    *)
(* and no other exec call: the PATH loop and the shell fallback are never  *)
(* entered, no candidate is built, the vector and environ are not          *)
(* written.  When the call fails the child is in the failure tail with     *)
(* the errno of that call as the error code.                               *)
(***************************************************************************)
InheritsEnv == p.envv = "NULL" \/ p.envv = "parentEnv"

Thm_C30 ==
    /\ [](InheritsEnv =>
             /\ Len(execs) <= 1
             /\ pc \notin {"path_loop", "ex_call", "ex_shell"}
             /\ environ = "parentEnv"
             /\ argv = ArgvFor(p.file)
             /\ expanded_file = <<>>
             /\ cand = <<>>
             /\ sticky_errno = 0
             /\ pc = "execed" => Len(execs) = 1
             /\ execs # <<>> =>
                   /\ execs[1].prim = "execvp"
                   /\ execs[1].file = p.file
                   /\ execs[1].argv = ArgvFor(p.file)
                   /\ execs[1].env = "parentEnv"
                   /\ execs[1].e = 0 => pc = "execed" /\ image.file = p.file
                   /\ execs[1].e # 0 =>
                         /\ pc \in TailPositions
                         /\ errnum = execs[1].e
                         /\ IsPrefix(Bytes(ErrPart), IntBytes(execs[1].e)))
    /\ [][(InheritsEnv /\ pc = "execvpe") =>
             /\ Len(execs') = 1
             /\ pc' \in {"execed", "tail_write"}
             /\ pc' = "tail_write" => errno' = execs'[1].e]_vars

\* MODE_VFORK, envp is environ: execvp failed with ENOEXEC and nothing else was tried
Wit_C30 ==
    /\ pc = "tail_write"
    /\ p.mode = MODE_VFORK
    /\ p.envv = "parentEnv"
    /\ Len(execs) = 1
    /\ execs[1].prim = "execvp"
    /\ execs[1].file = ProgPath
    /\ execs[1].e = ENOEXEC
    /\ errnum = ENOEXEC

(***************************************************************************)
(* C31 as stated: in the explicit PATH search every file handed to an exec *)
(* call (other than /bin/sh) is dir + "/" + name for an entry dir of the   *)
(* saved PATH list.                                                        *)
(***************************************************************************)
Orig_C31 ==
    PathMode =>
       \A i \in 1 .. Len(execs) :
          IsDirect(execs[i]) =>
             \E k \in 1 .. Len(parentPathv) :
                execs[i].file = parentPathv[k] \o <<"/">> \o p.file

(***************************************************************************)
(* C31 (amended): in the explicit PATH search every file handed to an exec *)
(* call (other than /bin/sh), and the candidate buffer once written, is    *)
(* built from an entry dir of the saved PATH list: dir + name when dir     *)
(* ends in "/", dir + "/" + name otherwise.  It contains a separator, so   *)
(* that the exec primitive searches no PATH of its own.                    *)
(***************************************************************************)
\* x is the candidate of some entry of the saved list
FromSavedPath(x) ==
    \E k \in 1 .. Len(parentPathv) :
       LET dir == parentPathv[k] IN
       x = IF dir[Len(dir)] = "/"
           THEN dir \o p.file
           ELSE dir \o <<"/">> \o p.file

Thm_C31 ==
    PathMode =>
       /\ \A i \in 1 .. Len(execs) :
             /\ IsDirect(execs[i]) =>
                   /\ FromSavedPath(execs[i].file)
                   /\ "/" \in Range(execs[i].file)
             /\ ~IsDirect(execs[i]) => FromSavedPath(execs[i].argv[2])
       /\ expanded_file # <<>> => FromSavedPath(expanded_file)
       /\ pc \in {"ex_call", "ex_shell"} => cand = expanded_file
       /\ parentPathv = <<>> => execs = <<>>

\* the entry /b/ gave the candidate /b/p
Wit_C31 ==
    /\ PathMode
    /\ parentPathv = <<DirA, DirB>>
    /\ Len(execs) = 2
    /\ execs[2].file = <<"/", "b", "/", "p">>
    /\ execs[2].e = 0

(***************************************************************************)
(* C32: with an explicit environment vector and a program path that holds  *)
(* a separator, one candidate is attempted, that very path: the saved PATH *)
(* list is not walked and the candidate buffer stays unwritten.  The only  *)
(* other exec call is the /bin/sh re-exec of that path, in MODE_VFORK      *)
(* after ENOEXEC.  The failed attempt leads to the tail with the errno of  *)
(* the last of these calls as the error code.                              *)
(***************************************************************************)
SlashMode == ~InheritsEnv /\ "/" \in Range(p.file)

Thm_C32 ==
    /\ [](SlashMode =>
             /\ IsPrefix(Attempted, <<p.file>>)
             /\ Len(execs) <= 2
             /\ Len(execs) = 2 =>
                   /\ p.mode = MODE_VFORK
                   /\ execs[1].e = ENOEXEC
                   /\ execs[2].file = BinSh
                   /\ execs[2].argv[2] = p.file
             /\ pc # "path_loop"
             /\ sticky_errno = 0
             /\ expanded_file = <<>>
             /\ pc \in {"ex_call", "ex_shell"} => cand = p.file
             /\ (pc \in TailPositions /\ execs # <<>>) =>
                   /\ LastExec(execs).e # 0
                   /\ errnum = LastExec(execs).e)
    /\ [][(SlashMode /\ pc \in {"ex_call", "ex_shell"}) =>
             /\ Len(execs') = Len(execs) + 1
             /\ \/ pc' = "execed" /\ LastExec(execs').e = 0
                \/ /\ pc' = "ex_shell"
                   /\ pc = "ex_call"
                   /\ p.mode = MODE_VFORK
                   /\ LastExec(execs').e = ENOEXEC
                \/ /\ pc' = "tail_write"
                   /\ LastExec(execs').e # 0
                   /\ errno' = LastExec(execs').e
                   /\ errnum' = LastExec(execs').e]_vars

\* the shell re-exec of /x/p failed with E2BIG although the saved list has
\* directories, and E2BIG went to the parent
Wit_C32 ==
    /\ SlashMode
    /\ parentPathv # <<>>
    /\ pc = "exited"
    /\ Len(execs) = 2
    /\ execs[1].file = ProgPath
    /\ execs[2].e = E2BIG
    /\ Bytes(ErrPart) = IntBytes(E2BIG)

(***************************************************************************)
(* C33: in a mode other than MODE_VFORK, with an explicit environment      *)
(* vector, every execution attempt assigns the vector to environ and calls *)
(* execvp with the argument vector as the caller gave it; no call is to    *)
(* /bin/sh and the shell position is not entered, also when the attempt    *)
(* fails with ENOEXEC, which leads to the tail or to the next directory.   *)
(***************************************************************************)
CopyMode == ~InheritsEnv /\ p.mode # MODE_VFORK

Thm_C34 ==
    /\ [](p.mode = MODE_VFORK =>
             /\ environ = "parentEnv"
             /\ ~InheritsEnv =>
                   \A i \in 1 .. Len(execs) :
                      /\ execs[i].prim = "execve"
                      /\ execs[i].env = p.envv
             /\ (~InheritsEnv /\ pc = "execed") =>
                   /\ image.prim = "execve"
                   /\ image.env = p.envv)
    /\ [][p.mode = MODE_VFORK => environ' = environ]_vars

\* the second PATH candidate replaced the image of a shared child
Wit_C34 ==
    /\ p.mode = MODE_VFORK
    /\ PathMode
    /\ pc = "execed"
    /\ Len(execs) = 2
    /\ execs[1].e = EACCES
    /\ image.env = "childEnv"
    /\ environ = "parentEnv"

(***************************************************************************)
(* C35: when the attempt on a PATH candidate has failed, the search goes   *)
(* to the next directory exactly when errno is EACCES, ENOENT, ENOTDIR,    *)
(* ELOOP, ESTALE, ENODEV or ETIMEDOUT.  With any other errno the search    *)
(* stops at once: no further exec call is made and that errno, not an      *)
(* EACCES seen before, is the error code of the tail.                      *)
(***************************************************************************)
\* the cases of the switch that fall to the break
BreakCases == {EACCES, ENOENT, ENOTDIR, ELOOP, ESTALE, ENODEV, ETIMEDOUT}

Thm_C35 ==
    /\ [](PathMode =>
             /\ \A i \in 1 .. Len(execs) - 1 :
                   \/ execs[i].e \in BreakCases
                   \/ execs[i].e = ENOEXEC /\ execs[i + 1].file = BinSh
             /\ (pc \in TailPositions /\ execs # <<>>) =>
                   (LastExec(execs).e \notin BreakCases =>
                       errnum = LastExec(execs).e))
    /\ [][(PathMode /\ pc \in {"ex_call", "ex_shell"}
              /\ pc' \notin {"ex_shell", "execed"}) =>
             /\ Len(execs') = Len(execs) + 1
             /\ LastExec(execs').e # 0
             /\ LastExec(execs').e \in BreakCases =>
                   /\ pc' = "path_loop"
                   /\ idx' = idx + 1
             /\ LastExec(execs').e \notin BreakCases =>
                   /\ pc' = "tail_write"
                   /\ errno' = LastExec(execs').e
                   /\ errnum' = LastExec(execs').e]_vars
    /\ [][(pc \in TailPositions) => execs' = execs]_vars

\* EACCES on the first directory, E2BIG on the second: the third is not
\* tried and E2BIG went to the parent
Wit_C35 ==
    /\ PathMode
    /\ Len(parentPathv) = 3
    /\ pc = "exited"
    /\ Len(execs) = 2
    /\ execs[1].e = EACCES
    /\ execs[2].e = E2BIG
    /\ sticky_errno = EACCES
    /\ Bytes(ErrPart) = IntBytes(E2BIG)

(***************************************************************************)
(* C36: a directory of the saved PATH list whose length plus the length of *)
(* the name plus 2 reaches PATH_MAX gives no exec call: the turn of the    *)
(* loop sets errno to ENAMETOOLONG, leaves the candidate buffer as it was  *)
(* and goes to the next directory.  Every path handed to an exec call      *)
(* leaves room in the buffer.                                              *)
(***************************************************************************)
TooLong(dir) == Len(p.file) + Len(dir) + 2 >= PATH_MAX

Thm_C36 ==
    /\ [](PathMode =>
             \A i \in 1 .. Len(execs) :
                IsDirect(execs[i]) => Len(execs[i].file) + 1 < PATH_MAX)
    /\ [][(pc = "path_loop" /\ idx <= Len(parentPathv)
              /\ TooLong(parentPathv[idx])) =>
             /\ errno' = ENAMETOOLONG
             /\ expanded_file' = expanded_file
             /\ cand' = cand
             /\ execs' = execs
             /\ hist' = hist
             /\ pc' = "path_loop"
             /\ idx' = idx + 1]_vars

\* the second directory was stepped over with the first candidate still in
\* the buffer
Wit_C36 ==
    /\ PathMode
    /\ parentPathv = <<DirA, DirLong, DirC>>
    /\ pc = "path_loop"
    /\ idx = 3
    /\ errno = ENAMETOOLONG
    /\ expanded_file = Expand(DirA, Prog)
    /\ Len(execs) = 1

(***************************************************************************)
(* C37 as stated: the error code of the tail is never 0 and is the errno   *)
(* that the failure which led to the tail has set: that of the failed      *)
(* step before program execution, that of the exec calls (the last one, a  *)
(* sticky EACCES, or ENAMETOOLONG of a directory stepped over), ENOENT of  *)
(* the empty program path.                                                 *)
(***************************************************************************)
\* a failed call whose result childProcess tests (that of sigprocmask is
\* not tested)
LedToTail(h) == StepFailed(h) /\ h.at # "sigmask"

\* the errno values the failure that led to the tail has set
SetByFailure ==
    IF execs # <<>>
    THEN {LastExec(execs).e}
            \cup {execs[i].e : i \in {j \in 1 .. Len(execs) : execs[j].e = EACCES}}
            \cup {ENAMETOOLONG : k \in {j \in 1 .. Len(parentPathv) :
                                           PathMode /\ TooLong(parentPathv[j])}}
    ELSE IF \E i \in 1 .. Len(hist) : LedToTail(hist[i])
    THEN {hist[i].e : i \in {j \in 1 .. Len(hist) : LedToTail(hist[j])}}
    ELSE IF ~InheritsEnv /\ p.file = <<>>
    THEN {ENOENT}
    ELSE IF PathMode
    THEN {ENAMETOOLONG : k \in {j \in 1 .. Len(parentPathv) :
                                    TooLong(parentPathv[j])}}
    ELSE {}

Orig_C37 ==
    pc \in TailPositions =>
       /\ errnum # 0
       /\ errnum \in SetByFailure

(***************************************************************************)
(* C38: with an explicit environment vector and an empty program path, in  *)
(* any mode, no exec call is made: the execution step goes to the tail     *)
(* with errno and the error code ENOENT, and ENOENT is what the tail       *)
(* sends.                                                                  *)
(***************************************************************************)
EmptyPath == ~InheritsEnv /\ p.file = <<>>

Thm_C38 ==
    /\ [](EmptyPath =>
             /\ execs = <<>>
             /\ ~image.ok
             /\ pc \notin {"path_loop", "ex_call", "ex_shell", "execed"}
             /\ expanded_file = <<>>
             /\ (pc \in TailPositions
                    /\ \A i \in 1 .. Len(hist) : ~LedToTail(hist[i])) =>
                   /\ errnum = ENOENT
                   /\ IsPrefix(Bytes(ErrPart), IntBytes(ENOENT)))
    /\ [][(EmptyPath /\ pc = "execvpe") =>
             /\ pc' = "tail_write"
             /\ errno' = ENOENT
             /\ errnum' = ENOENT
             /\ hist' = hist]_vars

\* a shared child with the empty path sent ENOENT after every step before
\* the execution succeeded
Wit_C38 ==
    /\ EmptyPath
    /\ p.mode = MODE_VFORK
    /\ pc = "exited"
    /\ execs = <<>>
    /\ \A i \in 1 .. Len(hist) : ~LedToTail(hist[i])
    /\ \E i \in 1 .. Len(hist) : hist[i].at = "chdir"
    /\ Bytes(ErrPart) = IntBytes(ENOENT)

(***************************************************************************)
(* C39: no step of the quarantine stage, enumeration or scan, succeeding   *)
(* or failing, changes the close-on-exec flag of descriptor 0, 1 or 2 or   *)
(* opens or closes a descriptor, the directory stream's own descriptor set *)
(* apart; the stream is open during the enumeration only and is closed on  *)
(* both ways out of it, so that the stage leaves the open descriptors as   *)
(* it found them.                                                          *)
(***************************************************************************)
Thm_C39 ==
    /\ [](/\ dp # NoFd <=> pc = "readdir"
          /\ \A fd \in Fds : fdt[fd] = "dir" <=> fd = dp)
    /\ [][(pc \in {"opendir", "readdir", "scan"}) =>
             /\ \A fd \in Fds \ {dp, dp'} :
                   /\ fdt'[fd] = fdt[fd]
                   /\ fd <= STDERR_FILENO => fdflags'[fd] = fdflags[fd]
             /\ pc' # "readdir" =>
                   \A fd \in Fds : IsOpen(fdt', fd) <=>
                                      (IsOpen(fdt, fd) /\ fd # dp)
             /\ (pc = "opendir" /\ pc' = "readdir") =>
                   /\ ~IsOpen(fdt, dp')
                   /\ fdt'[dp'] = "dir"]_vars

\* the enumeration failed on a mark and closed its stream on the way to the
\* scan, with the standard descriptors open and unmarked
Wit_C39 ==
    /\ pc = "scan"
    /\ dp = NoFd
    /\ \E i \in 1 .. Len(hist) :
          /\ hist[i].at = "readdir"
          /\ hist[i].op = "markCloseOnExec"
          /\ hist[i].res = -1
    /\ \A fd \in Fds : fdt[fd] # "dir"
    /\ \A fd \in 0 .. STDERR_FILENO : IsOpen(fdt, fd) /\ fdflags[fd] = 0
    /\ \E fd \in Fds : fd > STDERR_FILENO /\ fdflags[fd] = FD_CLOEXEC

====
